---- MODULE Spec2Model ----
(***************************************************************************)
(* Model of fbxtosprite: the Flask upload handler (src/app.py) and the     *)
(* Blender-side render script (src/scripts/process_fbx.py).                *)
(*                                                                         *)
(* The module holds several specifications over one set of variables:      *)
(*   SpecSampler  frame sampling of render_animation (process_fbx.py)      *)
(*   SpecBounds   get_animation_world_bounds (process_fbx.py)              *)
(*   SpecCamera   setup_camera (process_fbx.py)                            *)
(*   SpecScale    the orthographic scale of setup_camera on two volumes    *)
(*   Spec         upload_file, one request from form data to response      *)
(*   SpecRender   the render loop of render_animation (process_fbx.py)      *)
(*   SpecSheet    create_sprite_sheet (app.py)                              *)
(*   SpecRequest  form handling of upload_file and preview_render, and the  *)
(*                argument parser of the render script                      *)
(*   SpecIsolation  requests running at the same time                       *)
(*   SpecStyle    setup_scene and the style part of render_animation        *)
(*   SpecPose     one engine invocation: setup_camera, then the render loop *)
(*   SpecRun      the subprocess.run calls of the two routes, with fairness *)
(*   SpecNames    the output names of the per-angle loop of upload_file     *)
(* Each specification leaves the variables of the others at their idle     *)
(* values.                                                                 *)
(***************************************************************************)
EXTENDS Integers, Sequences, FiniteSets

VARIABLES
    \* ---- the Blender scene
    frame_current,         \* scene.frame_current
    \* ---- render_animation, frame sampling (process_fbx.py 622-642)
    s_pc,                  \* "idle" | "sample" | "done"
    start_frame,           \* int(action.frame_range[0])
    end_frame,             \* int(action.frame_range[1])
    num_frames_to_render,  \* --num_frames
    frames_to_render,      \* the list of source frames to render
    \* ---- get_animation_world_bounds (process_fbx.py 40-89)
    b_pc,                  \* "idle" | "loop" | "except" | "returned" |
                           \* "returned_error" | "raised"
    b_start,               \* parameter start_frame
    b_end,                 \* parameter end_frame
    obj_frames,            \* the object at each frame of the range
    original_frame,        \* local original_frame
    b_frame,               \* loop variable frame (the next one to visit)
    overall_min,           \* local overall_min
    overall_max,           \* local overall_max
    has_bounds,            \* local has_bounds
    b_result,              \* the value returned: FoundBounds(min, max) or NoBounds
    \* ---- setup_camera (process_fbx.py 184-309)
    c_pc,                  \* "idle" | "center" | "scale" | "place" |
                           \* "returned" | "raised"
    anim_bounds,           \* parameters anim_min, anim_max
    frame1,                \* what the frame 1 fallback meets
    obj_origin,            \* target_object.matrix_world.translation
    angle_degrees,         \* parameter angle_degrees
    resolution,            \* <<scene.render.resolution_x, resolution_y>>
    cam_world_center,      \* local cam_world_center
    cam_world_dims,        \* local cam_world_dims
    bounds_source,         \* local bounds_source
    calculated_ortho_scale,\* local calculated_ortho_scale = camera.ortho_scale
    effective_camera_distance, \* local effective_camera_distance
    camera_location,       \* camera_obj.location
    camera_target_point,   \* local camera_target_point
    \* ---- the orthographic scale of two volumes
    sc_pc,                 \* "idle" | "first" | "second" | "done"
    volA,                  \* the contained volume
    volB,                  \* the containing volume
    sc_resolution,         \* the render resolution of both
    scaleA,                \* the scale computed for volA
    scaleB,                \* the scale computed for volB
    \* ---- upload_file (app.py 431-716), from line 501 on
    u_pc,                  \* "idle" | "save" | "loop" | "check" | "post" |
                           \* "respond" | "except" | "finally" | "done"
    auto_angles_mode,      \* form field auto_angles_mode: "off" or "16"
    angles_to_process,     \* the list of angles
    output_type,           \* "zip" | "sheet"
    render_style,          \* the validated render style
    angle_i,               \* position of the per-angle loop in the list
    engine_outcome,        \* per angle: how subprocess.run ended, or "none"
    blender_errors,        \* the diagnostics list
    input_exists,          \* os.path.exists(input_path)
    temp_dir_exists,       \* os.path.exists(base_temp_dir)
    angle_dirs,            \* the angle_* subdirectories of base_temp_dir
    frames,                \* per angle: the number of its frame files
    frames_look,           \* "raw" | "upscaled" | "outlined" frame files
    sheets,                \* the sheet files in the output directory
    zip_exists,            \* os.path.exists(final_zip_path)
    zip_entries,           \* the number of files in the archive
    zip_created,           \* local zip_created
    items_to_finally_zip,  \* local items_to_finally_zip, possibly unbound
    frames_at_finalise,    \* frame files present when post-processing starts
    frames_produced,       \* frame files the engine runs have written so far
    io_fault,              \* file.save, subprocess.run, an image or the archive
                           \* has failed for a reason outside the handler
    response,              \* what the request returns
    \* ---- render_animation, the render loop (process_fbx.py 767-795)
    r_pc,                  \* "idle" | "render" | "done" | "raised"
    r_frames,              \* frames_to_render when the loop starts
    file_extension,        \* local file_extension
    frame_index,           \* local frame_index
    render_log,            \* per iteration: the file path, the source frame,
                           \* whether the file exists after the render
    \* ---- create_sprite_sheet (app.py 116-202)
    sh_pc,                 \* "idle" | "glob" | "open" | "save" | "returned"
    frame_info,            \* the frame files at the call: size and whether
                           \* Image.open succeeds, by file name
    folder_files,          \* the frame files now in frame_folder
    output_sheet_format,   \* parameter output_sheet_format
    sh_frame_files,        \* local frame_files
    images,                \* local images
    sprite_sheet,          \* local sprite_sheet: its size and what was pasted
    sheet_file,            \* the file at output_sheet_path
    sh_result,             \* the value returned, "none" before the return
    \* ---- form handling of upload_file (app.py 431-556) and preview_render
    \* ---- (app.py 277-331)
    q_pc,                  \* "idle" | "file" | "parse" | "invoke" | "engine" |
                           \* "done"
    route,                 \* "upload" | "preview"
    form,                  \* request.files and request.form
    q_params,              \* the values parsed from the form
    q_workdir,             \* the request made its working directory
    invocations,           \* the engine command lines issued, in order
    rendered,              \* per command line: the style the engine renders,
                           \* or "usage_error" when its parser exits
    q_response,            \* the response of the request, "none" before it
    \* ---- requests running at the same time (app.py 300-347, 502-713)
    i_pc,                  \* per request: "render" | "post" | "cleanup" | "done"
    i_route,               \* per request: "upload" | "preview"
    i_pixel_style,         \* per request: render_style is a pixel style
    i_files,               \* the frame files on disk: directory and producer
    i_touched,             \* who read, rewrote or deleted whose frame file
    \* ---- setup_scene and the style part of render_animation
    \* ---- (process_fbx.py 91-182, 644-765)
    st_pc,                 \* "idle" | "scene" | "style" | "done"
    st_render_style,       \* --render_style
    st_output_format,      \* --output_format
    st_pixel_resolution,   \* --pixel_resolution: absent (None) or a number
    st_has_materials,      \* the imported meshes have material slots
    st_scene,              \* the scene: light, world, resolution, file format,
                           \* freestyle
    st_object,             \* the imported meshes: material nodes, modifier,
                           \* material override
    \* ---- one engine invocation: setup_camera, then the render loop
    \* ---- (process_fbx.py 620, 773-793)
    p_pc,                  \* "idle" | "camera" | "render" | "done"
    p_bounds,              \* overall_min, overall_max given to setup_camera
    p_frame1,              \* what the frame 1 fallback meets
    p_origin,              \* target_object.matrix_world.translation, by frame
    p_angle,               \* --angle, in degrees
    p_resolution,          \* <<scene.render.resolution_x, resolution_y>>
    p_frames,              \* frames_to_render
    p_setup_frame,         \* scene.frame_current when setup_camera was called
    p_camera,              \* the camera: location, target, ortho_scale, and
                           \* the centre and dimensions it was framed on
    p_log,                 \* per rendered frame: the frame and the camera
    \* ---- the subprocess.run calls of the two routes (app.py 331, 558)
    t_pc,                  \* "idle" | "call" | "running" | "respond" | "done"
    t_route,               \* "upload" | "preview"
    t_engine,              \* per call: the engine process "exits", "fails"
                           \* (non-zero exit status) or "hangs"
    t_i,                   \* the call in progress
    t_elapsed,             \* seconds the call in progress has been waiting
    t_runs,                \* the timeout argument of each call made
    t_errors,              \* blender_errors
    t_response,            \* the response of the request, "none" before it
    \* ---- the file names of the per-angle loop of upload_file and the
    \* ---- order create_sprite_sheet reads them in (app.py 524-537, 120)
    n_pc,                  \* "idle" | "loop" | "sheet" | "done"
    n_mode,                \* auto_angles_mode: "off" | "16" | "32" | "64"
    n_angles,              \* angles_to_process, in thousandths of a degree
    n_i,                   \* position of the per-angle loop in the list
    n_files,               \* the frame files: directory, name, and the angle
                           \* whose engine run wrote the file last
    n_order                \* the angles of the tiles of the auto-angles
                           \* sheet, left to right

samplerVars == <<s_pc, start_frame, end_frame, num_frames_to_render, frames_to_render>>

boundsVars == <<b_pc, b_start, b_end, obj_frames, original_frame,
                b_frame, overall_min, overall_max, has_bounds, b_result>>

cameraVars == <<c_pc, anim_bounds, frame1, obj_origin, angle_degrees, resolution,
                cam_world_center, cam_world_dims, bounds_source,
                calculated_ortho_scale, effective_camera_distance,
                camera_location, camera_target_point>>

scaleVars == <<sc_pc, volA, volB, sc_resolution, scaleA, scaleB>>

uploadVars == <<u_pc, auto_angles_mode, angles_to_process, output_type,
                render_style, angle_i, engine_outcome, blender_errors,
                input_exists, temp_dir_exists, angle_dirs, frames, frames_look,
                sheets, zip_exists, zip_entries, zip_created,
                items_to_finally_zip, frames_at_finalise, frames_produced,
                io_fault, response>>

renderVars == <<r_pc, r_frames, file_extension, frame_index, render_log>>

sheetVars == <<sh_pc, frame_info, folder_files, output_sheet_format,
               sh_frame_files, images, sprite_sheet, sheet_file, sh_result>>

requestVars == <<q_pc, route, form, q_params, q_workdir, invocations,
                 rendered, q_response>>

isolationVars == <<i_pc, i_route, i_pixel_style, i_files, i_touched>>

styleVars == <<st_pc, st_render_style, st_output_format,
               st_pixel_resolution, st_has_materials, st_scene, st_object>>

poseVars == <<p_pc, p_bounds, p_frame1, p_origin, p_angle, p_resolution,
              p_frames, p_setup_frame, p_camera, p_log>>

runVars == <<t_pc, t_route, t_engine, t_i, t_elapsed, t_runs, t_errors,
             t_response>>

namesVars == <<n_pc, n_mode, n_angles, n_i, n_files, n_order>>

vars == <<frame_current, samplerVars, boundsVars, cameraVars,
          scaleVars, uploadVars, renderVars, sheetVars, requestVars,
          isolationVars, styleVars, poseVars, runVars, namesVars>>

\* what the actions of one specification leave unchanged
notSamplerVars == <<frame_current, boundsVars, cameraVars, scaleVars,
                    uploadVars, renderVars, sheetVars, requestVars,
                    isolationVars, styleVars, poseVars, runVars,
                    namesVars>>

notBoundsVars == <<samplerVars, cameraVars, scaleVars, uploadVars,
                   renderVars, sheetVars, requestVars, isolationVars,
                   styleVars, poseVars, runVars, namesVars>>

notCameraVars == <<samplerVars, boundsVars, scaleVars, uploadVars,
                   renderVars, sheetVars, requestVars, isolationVars,
                   styleVars, poseVars, runVars, namesVars>>

notScaleVars == <<frame_current, samplerVars, boundsVars, cameraVars,
                  uploadVars, renderVars, sheetVars, requestVars,
                  isolationVars, styleVars, poseVars, runVars,
                  namesVars>>

notUploadVars == <<frame_current, samplerVars, boundsVars,
                   cameraVars, scaleVars, renderVars, sheetVars,
                   requestVars, isolationVars, styleVars, poseVars,
                   runVars, namesVars>>

notRenderVars == <<samplerVars, boundsVars, cameraVars, scaleVars,
                   uploadVars, sheetVars, requestVars, isolationVars,
                   styleVars, poseVars, runVars, namesVars>>

notSheetVars == <<frame_current, samplerVars, boundsVars, cameraVars,
                  scaleVars, uploadVars, renderVars, requestVars,
                  isolationVars, styleVars, poseVars, runVars,
                  namesVars>>

notRequestVars == <<frame_current, samplerVars, boundsVars,
                    cameraVars, scaleVars, uploadVars, renderVars,
                    sheetVars, isolationVars, styleVars, poseVars,
                    runVars, namesVars>>

notIsolationVars == <<frame_current, samplerVars, boundsVars,
                      cameraVars, scaleVars, uploadVars, renderVars,
                      sheetVars, requestVars, styleVars, poseVars,
                      runVars, namesVars>>

notStyleVars == <<frame_current, samplerVars, boundsVars, cameraVars,
                  scaleVars, uploadVars, renderVars, sheetVars,
                  requestVars, isolationVars, poseVars, runVars,
                  namesVars>>

notPoseVars == <<samplerVars, boundsVars, cameraVars, scaleVars,
                 uploadVars, renderVars, sheetVars, requestVars,
                 isolationVars, styleVars, runVars, namesVars>>

notRunVars == <<frame_current, samplerVars, boundsVars, cameraVars,
                scaleVars, uploadVars, renderVars, sheetVars,
                requestVars, isolationVars, styleVars, poseVars,
                namesVars>>

notNamesVars == <<frame_current, samplerVars, boundsVars, cameraVars,
                  scaleVars, uploadVars, renderVars, sheetVars,
                  requestVars, isolationVars, styleVars, poseVars,
                  runVars>>

(***************************************************************************)
(* The idle values a specification gives to the variables it does not use. *)
(***************************************************************************)
\* the value of "return None, None"
NoBounds == [found |-> FALSE, min |-> <<>>, max |-> <<>>]

SamplerIdle ==
    /\ s_pc = "idle"
    /\ start_frame = 0
    /\ end_frame = 0
    /\ num_frames_to_render = 0
    /\ frames_to_render = <<>>

BoundsIdle ==
    /\ b_pc = "idle"
    /\ b_start = 0
    /\ b_end = 0
    /\ obj_frames = <<>>
    /\ original_frame = 0
    /\ b_frame = 0
    /\ overall_min = <<0, 0, 0>>
    /\ overall_max = <<0, 0, 0>>
    /\ has_bounds = FALSE
    /\ b_result = NoBounds

CameraIdle ==
    /\ c_pc = "idle"
    /\ anim_bounds = NoBounds
    /\ frame1 = "none"
    /\ obj_origin = <<0, 0, 0>>
    /\ angle_degrees = 0
    /\ resolution = <<0, 0>>
    /\ cam_world_center = <<0, 0, 0>>
    /\ cam_world_dims = <<0, 0, 0>>
    /\ bounds_source = "Default"
    /\ calculated_ortho_scale = 0
    /\ effective_camera_distance = 0
    /\ camera_location = <<0, 0, 0>>
    /\ camera_target_point = <<0, 0, 0>>

ScaleIdle ==
    /\ sc_pc = "idle"
    /\ volA = NoBounds
    /\ volB = NoBounds
    /\ sc_resolution = <<0, 0>>
    /\ scaleA = 0
    /\ scaleB = 0

\* a local variable that has not been assigned
Unbound == [bound |-> FALSE, items |-> {}]

UploadIdle ==
    /\ u_pc = "idle"
    /\ auto_angles_mode = "off"
    /\ angles_to_process = <<>>
    /\ output_type = "zip"
    /\ render_style = "bright"
    /\ angle_i = 0
    /\ engine_outcome = <<>>
    /\ blender_errors = <<>>
    /\ input_exists = FALSE
    /\ temp_dir_exists = FALSE
    /\ angle_dirs = {}
    /\ frames = <<>>
    /\ frames_look = "raw"
    /\ sheets = {}
    /\ zip_exists = FALSE
    /\ zip_entries = 0
    /\ zip_created = FALSE
    /\ items_to_finally_zip = Unbound
    /\ frames_at_finalise = 0
    /\ frames_produced = 0
    /\ io_fault = FALSE
    /\ response = "none"

RenderIdle ==
    /\ r_pc = "idle"
    /\ r_frames = <<>>
    /\ file_extension = "png"
    /\ frame_index = 0
    /\ render_log = <<>>

\* no strip has been made yet
NoSheet == [size |-> <<0, 0>>, tiles |-> <<>>]

\* there is no file at output_sheet_path
NoSheetFile == [exists |-> FALSE, encoding |-> "none", size |-> <<0, 0>>,
                tiles |-> <<>>]

SheetIdle ==
    /\ sh_pc = "idle"
    /\ frame_info = <<>>
    /\ folder_files = {}
    /\ output_sheet_format = "PNG"
    /\ sh_frame_files = <<>>
    /\ images = <<>>
    /\ sprite_sheet = NoSheet
    /\ sheet_file = NoSheetFile
    /\ sh_result = "none"

\* a form field: absent, text that is no number, or a number
Absent == [kind |-> "absent", val |-> 0]

Text == [kind |-> "text", val |-> 0]

Num(n) == [kind |-> "num", val |-> n]

\* no request has arrived
NoForm == [file |-> "none", auto_angles_mode |-> "off", angles |-> <<>>,
           custom_angle_enabled |-> FALSE, custom_angle_value |-> Absent,
           num_frames |-> Absent, render_style |-> "bright",
           pixel_resolution |-> Absent]

\* nothing has been parsed
NoParams == [ok |-> FALSE, angles |-> <<>>, num_frames |-> 0,
             render_style |-> "bright", pixel_resolution |-> Absent]

RequestIdle ==
    /\ q_pc = "idle"
    /\ route = "upload"
    /\ form = NoForm
    /\ q_params = NoParams
    /\ q_workdir = FALSE
    /\ invocations = <<>>
    /\ rendered = <<>>
    /\ q_response = "none"

IsolationIdle ==
    /\ i_pc = <<>>
    /\ i_route = <<>>
    /\ i_pixel_style = <<>>
    /\ i_files = {}
    /\ i_touched = {}

\* the scene and the meshes before setup_scene has run
NoScene == [light |-> "none", world |-> "default", resolution |-> <<0, 0>>,
            file_format |-> "none", freestyle |-> FALSE]

NoObjectStyle == [nodes |-> "original", modifier |-> "none",
                  override |-> "none"]

StyleIdle ==
    /\ st_pc = "idle"
    /\ st_render_style = "bright"
    /\ st_output_format = "PNG"
    /\ st_pixel_resolution = Absent
    /\ st_has_materials = FALSE
    /\ st_scene = NoScene
    /\ st_object = NoObjectStyle

\* no camera object yet
NoCamera == [location |-> <<0, 0, 0>>, target |-> <<0, 0, 0>>,
             ortho_scale |-> 0, center |-> <<0, 0, 0>>, dims |-> <<0, 0, 0>>]

PoseIdle ==
    /\ p_pc = "idle"
    /\ p_bounds = NoBounds
    /\ p_frame1 = [kind |-> "box", box |-> NoBounds]
    /\ p_origin = <<>>
    /\ p_angle = 0
    /\ p_resolution = <<0, 0>>
    /\ p_frames = <<>>
    /\ p_setup_frame = 0
    /\ p_camera = NoCamera
    /\ p_log = <<>>

RunIdle ==
    /\ t_pc = "idle"
    /\ t_route = "upload"
    /\ t_engine = <<>>
    /\ t_i = 0
    /\ t_elapsed = 0
    /\ t_runs = <<>>
    /\ t_errors = <<>>
    /\ t_response = "none"

NamesIdle ==
    /\ n_pc = "idle"
    /\ n_mode = "off"
    /\ n_angles = <<>>
    /\ n_i = 0
    /\ n_files = {}
    /\ n_order = <<>>

\* the idle values of all specifications but one
NotSamplerIdle ==
    /\ BoundsIdle
    /\ CameraIdle
    /\ ScaleIdle
    /\ UploadIdle
    /\ RenderIdle
    /\ SheetIdle
    /\ RequestIdle
    /\ IsolationIdle
    /\ StyleIdle
    /\ PoseIdle
    /\ RunIdle
    /\ NamesIdle

NotBoundsIdle ==
    /\ SamplerIdle
    /\ CameraIdle
    /\ ScaleIdle
    /\ UploadIdle
    /\ RenderIdle
    /\ SheetIdle
    /\ RequestIdle
    /\ IsolationIdle
    /\ StyleIdle
    /\ PoseIdle
    /\ RunIdle
    /\ NamesIdle

NotCameraIdle ==
    /\ SamplerIdle
    /\ BoundsIdle
    /\ ScaleIdle
    /\ UploadIdle
    /\ RenderIdle
    /\ SheetIdle
    /\ RequestIdle
    /\ IsolationIdle
    /\ StyleIdle
    /\ PoseIdle
    /\ RunIdle
    /\ NamesIdle

NotScaleIdle ==
    /\ SamplerIdle
    /\ BoundsIdle
    /\ CameraIdle
    /\ UploadIdle
    /\ RenderIdle
    /\ SheetIdle
    /\ RequestIdle
    /\ IsolationIdle
    /\ StyleIdle
    /\ PoseIdle
    /\ RunIdle
    /\ NamesIdle

NotUploadIdle ==
    /\ SamplerIdle
    /\ BoundsIdle
    /\ CameraIdle
    /\ ScaleIdle
    /\ RenderIdle
    /\ SheetIdle
    /\ RequestIdle
    /\ IsolationIdle
    /\ StyleIdle
    /\ PoseIdle
    /\ RunIdle
    /\ NamesIdle

NotRenderIdle ==
    /\ SamplerIdle
    /\ BoundsIdle
    /\ CameraIdle
    /\ ScaleIdle
    /\ UploadIdle
    /\ SheetIdle
    /\ RequestIdle
    /\ IsolationIdle
    /\ StyleIdle
    /\ PoseIdle
    /\ RunIdle
    /\ NamesIdle

NotSheetIdle ==
    /\ SamplerIdle
    /\ BoundsIdle
    /\ CameraIdle
    /\ ScaleIdle
    /\ UploadIdle
    /\ RenderIdle
    /\ RequestIdle
    /\ IsolationIdle
    /\ StyleIdle
    /\ PoseIdle
    /\ RunIdle
    /\ NamesIdle

NotRequestIdle ==
    /\ SamplerIdle
    /\ BoundsIdle
    /\ CameraIdle
    /\ ScaleIdle
    /\ UploadIdle
    /\ RenderIdle
    /\ SheetIdle
    /\ IsolationIdle
    /\ StyleIdle
    /\ PoseIdle
    /\ RunIdle
    /\ NamesIdle

NotIsolationIdle ==
    /\ SamplerIdle
    /\ BoundsIdle
    /\ CameraIdle
    /\ ScaleIdle
    /\ UploadIdle
    /\ RenderIdle
    /\ SheetIdle
    /\ RequestIdle
    /\ StyleIdle
    /\ PoseIdle
    /\ RunIdle
    /\ NamesIdle

NotStyleIdle ==
    /\ SamplerIdle
    /\ BoundsIdle
    /\ CameraIdle
    /\ ScaleIdle
    /\ UploadIdle
    /\ RenderIdle
    /\ SheetIdle
    /\ RequestIdle
    /\ IsolationIdle
    /\ PoseIdle
    /\ RunIdle
    /\ NamesIdle

NotPoseIdle ==
    /\ SamplerIdle
    /\ BoundsIdle
    /\ CameraIdle
    /\ ScaleIdle
    /\ UploadIdle
    /\ RenderIdle
    /\ SheetIdle
    /\ RequestIdle
    /\ IsolationIdle
    /\ StyleIdle
    /\ RunIdle
    /\ NamesIdle

NotRunIdle ==
    /\ SamplerIdle
    /\ BoundsIdle
    /\ CameraIdle
    /\ ScaleIdle
    /\ UploadIdle
    /\ RenderIdle
    /\ SheetIdle
    /\ RequestIdle
    /\ IsolationIdle
    /\ StyleIdle
    /\ PoseIdle
    /\ NamesIdle

NotNamesIdle ==
    /\ SamplerIdle
    /\ BoundsIdle
    /\ CameraIdle
    /\ ScaleIdle
    /\ UploadIdle
    /\ RenderIdle
    /\ SheetIdle
    /\ RequestIdle
    /\ IsolationIdle
    /\ StyleIdle
    /\ PoseIdle
    /\ RunIdle

(***************************************************************************)
(* Bounds of the model.                                                    *)
(***************************************************************************)
MaxSpan == 7      \* end_frame - start_frame is at most this
MaxNum == 8       \* the requested frame count is at most this
MaxBoundsSpan == 2  \* get_animation_world_bounds: end_frame - start_frame
MaxAngles == 3    \* upload_file: the angle list is at most this long
MaxFrames == 1    \* upload_file: frame files one engine run leaves, at most
MaxSheetFrames == 3  \* create_sprite_sheet: frame files in the folder, at most
MaxStdAngles == 2    \* request form: standard angle boxes ticked, at most
MaxRequests == 2     \* requests running at the same time
MaxPoseFrames == 3   \* frames of the object in one engine invocation
MaxWait == 600       \* seconds a call without a timeout is followed
TickSeconds == 100   \* seconds between two looks at a waiting call

(***************************************************************************)
(* Helpers for Python built-ins.                                           *)
(***************************************************************************)
Min2(a, b) == IF a <= b THEN a ELSE b
Max2(a, b) == IF a >= b THEN a ELSE b

\* round(p/q) for q > 0 as Python 3 rounds: to the nearest integer, a tie
\* to the even one.  Within the bounds of the model the double computed by
\* start_frame + i * step rounds to the same integer as the exact quotient
\* (the two first differ at a span of 25 frames).
PyRound(p, q) ==
    LET f == p \div q
        r == p % q
    IN  IF 2 * r < q THEN f
        ELSE IF 2 * r > q THEN f + 1
        ELSE IF f % 2 = 0 THEN f ELSE f + 1

\* sorted(list(S)) for a finite set of integers
RECURSIVE SortedList(_)
SortedList(S) ==
    IF S = {} THEN <<>>
    ELSE LET m == CHOOSE x \in S : \A y \in S : x <= y
         IN  <<m>> \o SortedList(S \ {m})

(***************************************************************************)
(* render_animation: "Determine frames to render"                          *)
(***************************************************************************)
\* TotalSourceFrames with a fault: the last frame of the range is not counted
TotalSourceFramesExclusive(start, end) == end - start

\* total_source_frames = end_frame - start_frame + 1
TotalSourceFrames(start, end) == end - start + 1

\* SingleFrame with a fault: the single frame rendered is the last one
SingleFrameLast(start, end) == <<end>>

\* the branch that renders only one frame: frames_to_render.append(start_frame)
SingleFrame(start, end) == <<start>>

\* CurrentFrame with a fault: the step is computed with integer division
CurrentFrameIntStep(start, end, n, i) ==
    LET total == end - start + 1
        step == (total - 1) \div (n - 1)
    IN  Max2(start, Min2(end, start + i * step))

\* current_frame of iteration i, with n = min(num_frames_to_render, total):
\*   step = float(total - 1) / (n - 1)
\*   current_frame = int(round(start_frame + i * step))
\*   current_frame = max(start_frame, min(end_frame, current_frame))
CurrentFrame(start, end, n, i) ==
    LET total == TotalSourceFrames(start, end)
        rounded == PyRound(start * (n - 1) + i * (total - 1), n - 1)
    IN  Max2(start, Min2(end, rounded))

\* the whole computation of frames_to_render
SampleFrames(start, end, num) ==
    LET total == TotalSourceFrames(start, end)
    IN  IF total <= 1 \/ num <= 1
        THEN SingleFrame(start, end)
        ELSE LET n == Min2(num, total)
             IN  SortedList({CurrentFrame(start, end, n, i) : i \in 0..(n - 1)})

SamplerInit ==
    /\ frame_current = 0
    /\ NotSamplerIdle
    /\ s_pc = "sample"
    /\ start_frame \in -2..2
    /\ end_frame \in (start_frame - 1)..(start_frame + MaxSpan)
    /\ num_frames_to_render \in -1..MaxNum
    /\ frames_to_render = <<>>

DetermineFrames ==
    /\ s_pc = "sample"
    /\ frames_to_render' = SampleFrames(start_frame, end_frame, num_frames_to_render)
    /\ s_pc' = "done"
    /\ UNCHANGED <<start_frame, end_frame, num_frames_to_render>>
    /\ UNCHANGED notSamplerVars

SamplerNext == DetermineFrames

SpecSampler == SamplerInit /\ [][SamplerNext]_vars

StrictlyIncreasing(seq) ==
    \A i \in 1..(Len(seq) - 1) : seq[i] < seq[i + 1]

\* C1: for start_frame <= end_frame and a requested frame count >= 2, the
\* sampled list starts with start_frame, ends with end_frame, is strictly
\* increasing, lies within [start_frame, end_frame] and is no longer than
\* the requested frame count.
C1_SamplerEndpoints ==
    (s_pc = "done" /\ start_frame <= end_frame /\ num_frames_to_render >= 2) =>
        /\ Len(frames_to_render) >= 1
        /\ frames_to_render[1] = start_frame
        /\ frames_to_render[Len(frames_to_render)] = end_frame
        /\ StrictlyIncreasing(frames_to_render)
        /\ \A i \in 1..Len(frames_to_render) :
               start_frame <= frames_to_render[i] /\ frames_to_render[i] <= end_frame
        /\ Len(frames_to_render) <= num_frames_to_render

\* a run that sub-samples: more source frames than requested, and a
\* requested count of at least 3, so that inner frames are rounded
C1_Witness ==
    /\ s_pc = "done"
    /\ num_frames_to_render >= 3
    /\ TotalSourceFrames(start_frame, end_frame) > num_frames_to_render
    /\ Len(frames_to_render) = num_frames_to_render
    /\ frames_to_render[2] > start_frame + 1

\* C2: a requested frame count of 1 or less, or a range holding a single
\* frame (end_frame - start_frame + 1 <= 1), yields exactly [start_frame].
C2_SingleFrame ==
    (s_pc = "done" /\
     (num_frames_to_render <= 1 \/ end_frame - start_frame + 1 <= 1)) =>
        frames_to_render = <<start_frame>>

\* one frame requested of an animation that has several
C2_Witness ==
    /\ s_pc = "done"
    /\ num_frames_to_render = 1
    /\ end_frame > start_frame
    /\ frames_to_render = <<start_frame>>

(***************************************************************************)
(* get_animation_world_bounds                                              *)
(***************************************************************************)
\* float('inf'): larger than every coordinate of the model
Inf == 1000

\* the value of "return overall_min, overall_max"
FoundBounds(lo, hi) == [found |-> TRUE, min |-> lo, max |-> hi]

\* The object at one frame:
\*   kind "corners": obj.matrix_world @ corner for the corners of
\*                   obj.bound_box gives the points pts (possibly none)
\*   kind "raise":   computing the world corners raises
\*   kind "nobox":   the object has no attribute bound_box
CornersA == {<<0, 0, 0>>, <<1, 1, 1>>}
CornersB == {<<-1, 0, 2>>, <<0, 3, 3>>}
ObjectAtFrame ==
    {[kind |-> "corners", pts |-> CornersA],
     [kind |-> "corners", pts |-> CornersB],
     [kind |-> "corners", pts |-> {}],
     [kind |-> "raise", pts |-> {}],
     [kind |-> "nobox", pts |-> {}]}

\* min(...) and max(...) over a non-empty finite set of numbers
SetMin(S) == CHOOSE x \in S : \A y \in S : x <= y
SetMax(S) == CHOOSE x \in S : \A y \in S : x >= y

\* UpdateOverallMin with a fault: the bounds of the frame replace the
\* accumulated ones
UpdateOverallMinReplace(old, corners) ==
    [i \in 1..3 |-> SetMin({c[i] : c \in corners})]

\* for corner in world_corners: for i in range(3):
\*     overall_min[i] = min(overall_min[i], corner[i])
UpdateOverallMin(old, corners) ==
    [i \in 1..3 |-> SetMin({old[i]} \cup {c[i] : c \in corners})]

\*     overall_max[i] = max(overall_max[i], corner[i])
UpdateOverallMax(old, corners) ==
    [i \in 1..3 |-> SetMax({old[i]} \cup {c[i] : c \in corners})]

\* RestoreOnError with a fault: the handler returns without resetting the frame
RestoreOnErrorMissing(original, current) == current

\* scene.frame_set(original_frame) of the outer handler: the frame it leaves
RestoreOnError(original, current) == original

BoundsInit ==
    /\ NotBoundsIdle
    /\ b_pc = "loop"
    /\ b_start \in 1..2
    /\ b_end \in b_start..(b_start + MaxBoundsSpan)
    /\ obj_frames \in [b_start..b_end -> ObjectAtFrame]
    /\ frame_current \in {0, 1, 3}
    /\ original_frame = frame_current
    /\ b_frame = b_start
    /\ overall_min = <<Inf, Inf, Inf>>
    /\ overall_max = <<-Inf, -Inf, -Inf>>
    /\ has_bounds = FALSE
    /\ b_result = NoBounds

\* One iteration of "for frame in range(start_frame, end_frame + 1)" that
\* reaches the end of the loop body: the frame is set, and the frame's
\* corners are merged, or the frame is skipped (continue, or the inner
\* handler).
BoundsFrame ==
    /\ b_pc = "loop"
    /\ b_frame <= b_end
    /\ frame_current' = b_frame
    /\ LET o == obj_frames[b_frame]
       IN  IF o.kind = "corners" /\ o.pts # {}
           THEN /\ overall_min' = UpdateOverallMin(overall_min, o.pts)
                /\ overall_max' = UpdateOverallMax(overall_max, o.pts)
                /\ has_bounds' = TRUE
           ELSE UNCHANGED <<overall_min, overall_max, has_bounds>>
    /\ b_frame' = b_frame + 1
    /\ UNCHANGED <<b_pc, b_start, b_end, obj_frames, original_frame, b_result>>
    /\ UNCHANGED notBoundsVars

\* An iteration that leaves the loop by an exception the inner handler does
\* not cover: scene.frame_set(frame) raises (the frame may or may not have
\* moved), or the frame is set and hasattr(obj, 'bound_box') raises.
BoundsFrameRaises ==
    /\ b_pc = "loop"
    /\ b_frame <= b_end
    /\ frame_current' \in {frame_current, b_frame}
    /\ b_pc' = "except"
    /\ UNCHANGED <<b_start, b_end, obj_frames, original_frame, b_frame,
                   overall_min, overall_max, has_bounds, b_result>>
    /\ UNCHANGED notBoundsVars

\* After the loop: scene.frame_set(original_frame), then the result.
BoundsReturn ==
    /\ b_pc = "loop"
    /\ b_frame > b_end
    /\ frame_current' = original_frame
    /\ b_result' = IF has_bounds THEN FoundBounds(overall_min, overall_max) ELSE NoBounds
    /\ b_pc' = "returned"
    /\ UNCHANGED <<b_start, b_end, obj_frames, original_frame, b_frame,
                   overall_min, overall_max, has_bounds>>
    /\ UNCHANGED notBoundsVars

\* After the loop, scene.frame_set(original_frame) raises.
BoundsRestoreRaises ==
    /\ b_pc = "loop"
    /\ b_frame > b_end
    /\ b_pc' = "except"
    /\ UNCHANGED <<frame_current, b_start, b_end, obj_frames, original_frame,
                   b_frame, overall_min, overall_max, has_bounds, b_result>>
    /\ UNCHANGED notBoundsVars

\* except Exception as e_outer: scene.frame_set(original_frame); return None, None
BoundsExcept ==
    /\ b_pc = "except"
    /\ frame_current' = RestoreOnError(original_frame, frame_current)
    /\ b_result' = NoBounds
    /\ b_pc' = "returned_error"
    /\ UNCHANGED <<b_start, b_end, obj_frames, original_frame, b_frame,
                   overall_min, overall_max, has_bounds>>
    /\ UNCHANGED notBoundsVars

\* In the outer handler scene.frame_set(original_frame) raises: the
\* exception leaves the function.
BoundsExceptRaises ==
    /\ b_pc = "except"
    /\ b_pc' = "raised"
    /\ UNCHANGED <<frame_current, b_start, b_end, obj_frames, original_frame,
                   b_frame, overall_min, overall_max, has_bounds, b_result>>
    /\ UNCHANGED notBoundsVars

BoundsNext ==
    \/ BoundsFrame
    \/ BoundsFrameRaises
    \/ BoundsReturn
    \/ BoundsRestoreRaises
    \/ BoundsExcept
    \/ BoundsExceptRaises

SpecBounds == BoundsInit /\ [][BoundsNext]_vars

\* the frames of the range whose bounds computation succeeds
SucceededFrames ==
    {f \in b_start..b_end :
        obj_frames[f].kind = "corners" /\ obj_frames[f].pts # {}}

\* all world corners of the frames that succeed
AllCorners == UNION {obj_frames[f].pts : f \in SucceededFrames}

\* the componentwise min/max over all frames that succeeded
AnimationBoundsUnion ==
    [found |-> TRUE,
     min |-> [i \in 1..3 |-> SetMin({c[i] : c \in AllCorners})],
     max |-> [i \in 1..3 |-> SetMax({c[i] : c \in AllCorners})]]

C7_FrameRestored ==
    (b_pc \in {"returned", "returned_error"}) => (frame_current = original_frame)

\* a return through the outer handler after frames other than the original
\* one were visited
C7_Witness ==
    /\ b_pc = "returned_error"
    /\ b_frame > b_start
    /\ original_frame \notin b_start..b_end
    /\ frame_current = original_frame

(***************************************************************************)
(* setup_camera                                                            *)
(*                                                                         *)
(* Coordinates of bounds, dimensions and the object origin are integers in *)
(* units of 0.0001; the centre, the orthographic scale, the camera         *)
(* distance and the camera location are integers in units of 0.000001.     *)
(***************************************************************************)
\* 0.000001-units per 0.0001-unit
MicroPerCoord == 100

\* calculated_ortho_scale = 5.0, the default fallback scale
DefaultOrthoScale == 5000000

\* cam_world_dims.length > 0.001, squared, in coordinate units
MinDimsLengthSq == 100

\* padding_multiplier = 2.2, in tenths
PaddingMultiplierTenths == 22

\* if calculated_ortho_scale < 0.01
SmallScaleThreshold == 10000

\* calculated_ortho_scale = 0.1
SmallScaleValue == 100000

\* camera_distance_multiplier = 2.5, in tenths
CameraDistanceMultiplierTenths == 25

\* min_camera_distance = 1.0
MinCameraDistance == 1000000

\* mathutils.Vector((2,2,2)), one component in coordinate units
FallbackDim == 20000

Vec(x, y, z) == <<x, y, z>>
VecAdd(a, b) == <<a[1] + b[1], a[2] + b[2], a[3] + b[3]>>
VecSub(a, b) == <<a[1] - b[1], a[2] - b[2], a[3] - b[3]>>

\* (lo + hi) / 2.0, in units of 0.000001
Center(lo, hi) ==
    [i \in 1..3 |-> ((lo[i] + hi[i]) * MicroPerCoord) \div 2]

\* a point of coordinate units in units of 0.000001
ToMicro(v) == [i \in 1..3 |-> v[i] * MicroPerCoord]

\* OrthoScale with a fault: neither the default scale for vanishing
\* dimensions nor the small-scale replacement
OrthoScaleNoFallback(dims, res) ==
    (Max2(dims[1], Max2(dims[2], dims[3])) * MicroPerCoord * PaddingMultiplierTenths)
        \div 20

\* "Determine Orthographic Scale": calculated_ortho_scale from cam_world_dims
\* and the render resolution res = <<resolution_x, resolution_y>>
\*   aspect_ratio = resolution_x / resolution_y
\*   base_scale = max_world_dim / 2.0
\*   if aspect_ratio < 1.0: base_scale *= 1.0 / aspect_ratio
\*   calculated_ortho_scale = base_scale * padding_multiplier
\* (the quotient is exact for the resolutions of the model)
OrthoScale(dims, res) ==
    IF dims[1] * dims[1] + dims[2] * dims[2] + dims[3] * dims[3] > MinDimsLengthSq
    THEN LET max_world_dim == Max2(dims[1], Max2(dims[2], dims[3]))
             num == IF res[1] < res[2] THEN res[2] ELSE 1
             den == IF res[1] < res[2] THEN res[1] ELSE 1
             base_scale2 == (max_world_dim * num) \div den  \* twice base_scale
             scale == (base_scale2 * MicroPerCoord * PaddingMultiplierTenths)
                          \div (2 * 10)
         IN  IF scale < SmallScaleThreshold THEN SmallScaleValue ELSE scale
    ELSE DefaultOrthoScale

\* CameraDistance with a fault: a multiplier of 0.25 in place of 2.5
CameraDistanceQuarter(scale) ==
    Max2(MinCameraDistance, (scale * CameraDistanceMultiplierTenths) \div 100)

\* effective_camera_distance = max(min_camera_distance,
\*                                 calculated_ortho_scale * 2.5)
CameraDistance(scale) ==
    Max2(MinCameraDistance, (scale * CameraDistanceMultiplierTenths) \div 10)

\* cos and sin of math.radians(angle) for the angles of the model, which
\* are multiples of 90 degrees
CosDeg(a) == CASE a % 360 = 0 -> 1 [] a % 360 = 90 -> 0
               [] a % 360 = 180 -> -1 [] a % 360 = 270 -> 0
SinDeg(a) == CASE a % 360 = 0 -> 0 [] a % 360 = 90 -> 1
               [] a % 360 = 180 -> 0 [] a % 360 = 270 -> -1

\* RotateZ with a fault: the rotation turns the other way
RotateZClockwise(a, v) ==
    <<CosDeg(a) * v[1] + SinDeg(a) * v[2],
      CosDeg(a) * v[2] - SinDeg(a) * v[1],
      v[3]>>

\* mathutils.Matrix.Rotation(radians, 4, 'Z') @ v
RotateZ(a, v) ==
    <<CosDeg(a) * v[1] - SinDeg(a) * v[2],
      SinDeg(a) * v[1] + CosDeg(a) * v[2],
      v[3]>>

\* where control continues after "except Exception as e_fc"
AfterFrame1Error == "scale"

\* the bounding volumes given to setup_camera
VolUnit == FoundBounds(<<-10000, -10000, -10000>>, <<10000, 10000, 10000>>)
VolZero == FoundBounds(<<5, 5, 5>>, <<5, 5, 5>>)
VolTiny == FoundBounds(<<0, 0, 0>>, <<1, 1, 1>>)
VolClamp == FoundBounds(<<0, 0, 0>>, <<40, 20, 10>>)
VolSmall == FoundBounds(<<0, 0, 0>>, <<200, 100, 100>>)
VolOff == FoundBounds(<<1000, 2000, -3000>>, <<5000, 4000, 1000>>)
CameraVolumes == {VolUnit, VolZero, VolTiny, VolClamp, VolSmall, VolOff}

\* What the frame 1 fallback meets:
\*   "box"              get_object_world_dimensions and the corners succeed
\*   "dims_none"        get_object_world_dimensions returns None
\*   "frame_set_raises" scene.frame_set(1) raises
\*   "corners_raise"    the corners of target_object.bound_box raise
\*   "restore_raises"   scene.frame_set(original_frame) raises
Frame1Outcomes ==
    {[kind |-> k, box |-> b] :
        k \in {"box", "dims_none", "frame_set_raises", "corners_raise",
               "restore_raises"},
        b \in {VolOff, VolZero}}

CameraInit ==
    /\ NotCameraIdle
    /\ c_pc = "center"
    /\ frame_current \in {1, 5}
    /\ anim_bounds \in CameraVolumes \cup {NoBounds}
    /\ frame1 \in IF anim_bounds.found THEN {[kind |-> "box", box |-> VolZero]}
                  ELSE Frame1Outcomes
    /\ obj_origin \in IF anim_bounds.found THEN {<<0, 0, 0>>}
                      ELSE {<<0, 0, 0>>, <<300, -200, 100>>}
    /\ angle_degrees \in {0, 90, 180, 270, 360}
    /\ resolution \in {<<1024, 1024>>, <<128, 128>>, <<512, 1024>>, <<1024, 512>>}
    /\ cam_world_center = <<0, 0, 0>>
    /\ cam_world_dims = <<10000, 10000, 10000>>
    /\ bounds_source = "Default"
    /\ calculated_ortho_scale = DefaultOrthoScale
    /\ effective_camera_distance = 0
    /\ camera_location = <<0, 0, 0>>
    /\ camera_target_point = <<0, 0, 0>>

\* "Determine Center and Dimensions" when anim_min and anim_max are given
CameraAnimBounds ==
    /\ c_pc = "center"
    /\ anim_bounds.found
    /\ cam_world_center' = Center(anim_bounds.min, anim_bounds.max)
    /\ cam_world_dims' = VecSub(anim_bounds.max, anim_bounds.min)
    /\ bounds_source' = "Animation Bounds"
    /\ c_pc' = "scale"
    /\ UNCHANGED <<frame_current, anim_bounds, frame1, obj_origin, angle_degrees,
                   resolution, calculated_ortho_scale, effective_camera_distance,
                   camera_location, camera_target_point>>
    /\ UNCHANGED notCameraVars

\* "Determine Center and Dimensions", the frame 1 fallback with its handler
CameraFrame1Fallback ==
    /\ c_pc = "center"
    /\ ~anim_bounds.found
    /\ bounds_source' = "Frame 1"
    /\ frame_current' =
          CASE frame1.kind = "frame_set_raises" -> frame_current
            [] frame1.kind \in {"corners_raise", "restore_raises"} -> 1
            [] OTHER -> frame_current
    /\ IF frame1.kind = "box"
       THEN /\ cam_world_center' = Center(frame1.box.min, frame1.box.max)
            /\ cam_world_dims' = VecSub(frame1.box.max, frame1.box.min)
       ELSE /\ cam_world_center' = ToMicro(obj_origin)
            /\ cam_world_dims' = <<FallbackDim, FallbackDim, FallbackDim>>
    /\ c_pc' = IF frame1.kind \in {"box", "dims_none"} THEN "scale"
               ELSE AfterFrame1Error
    /\ UNCHANGED <<anim_bounds, frame1, obj_origin, angle_degrees, resolution,
                   calculated_ortho_scale, effective_camera_distance,
                   camera_location, camera_target_point>>
    /\ UNCHANGED notCameraVars

\* "Determine Orthographic Scale"
CameraScale ==
    /\ c_pc = "scale"
    /\ calculated_ortho_scale' = OrthoScale(cam_world_dims, resolution)
    /\ c_pc' = "place"
    /\ UNCHANGED <<frame_current, anim_bounds, frame1, obj_origin, angle_degrees,
                   resolution, cam_world_center, cam_world_dims, bounds_source,
                   effective_camera_distance, camera_location, camera_target_point>>
    /\ UNCHANGED notCameraVars

\* "Create and Position Camera", "Point Camera", return camera_obj
CameraPlace ==
    /\ c_pc = "place"
    /\ effective_camera_distance' = CameraDistance(calculated_ortho_scale)
    /\ camera_location' =
          VecAdd(cam_world_center,
                 RotateZ(angle_degrees,
                         Vec(0, -CameraDistance(calculated_ortho_scale), 0)))
    /\ camera_target_point' = cam_world_center
    /\ c_pc' = "returned"
    /\ UNCHANGED <<frame_current, anim_bounds, frame1, obj_origin, angle_degrees,
                   resolution, cam_world_center, cam_world_dims, bounds_source,
                   calculated_ortho_scale>>
    /\ UNCHANGED notCameraVars

CameraNext ==
    \/ CameraAnimBounds
    \/ CameraFrame1Fallback
    \/ CameraScale
    \/ CameraPlace

SpecCamera == CameraInit /\ [][CameraNext]_vars

\* C9: bounds min=(-1,-1,-1), max=(1,1,1), angle 90 degrees, aspect ratio 1.0:
\* the orthographic scale is 2.2, the camera distance is 5.5, the camera
\* sits at the bounds centre plus (0, -5.5, 0) rotated by 90 degrees about
\* Z, which is (5.5, 0, 0), and the look-at target is the bounds centre.
C9_Scenario ==
    (/\ c_pc = "returned"
     /\ anim_bounds = VolUnit
     /\ angle_degrees = 90
     /\ resolution[1] = resolution[2]) =>
        /\ calculated_ortho_scale = 2200000
        /\ effective_camera_distance = 5500000
        /\ camera_location = <<5500000, 0, 0>>
        /\ camera_target_point = <<0, 0, 0>>
        /\ camera_target_point = Center(anim_bounds.min, anim_bounds.max)

\* the scenario has run to its end
C9_Witness ==
    /\ c_pc = "returned"
    /\ anim_bounds = VolUnit
    /\ angle_degrees = 90
    /\ resolution = <<1024, 1024>>
    /\ camera_location[1] > 0

\* C10: setup_camera returns a camera without raising for every input, and
\* the orthographic scale it assigns is strictly positive.
C10_UsablePose ==
    /\ c_pc # "raised"
    /\ (c_pc \in {"center", "scale", "place"}) => ENABLED CameraNext
    /\ (c_pc \in {"place", "returned"}) => (calculated_ortho_scale > 0)

\* the frame 1 fallback raised and a camera was still returned
C10_Witness ==
    /\ c_pc = "returned"
    /\ ~anim_bounds.found
    /\ frame1.kind = "corners_raise"
    /\ calculated_ortho_scale > 0
    /\ camera_target_point = ToMicro(obj_origin)

(***************************************************************************)
(* The orthographic scale of setup_camera for two volumes, one strictly    *)
(* inside the other, at one render resolution.                             *)
(***************************************************************************)
\* half extents of the volumes, in coordinate units of 0.0001
HalfExtents == {1, 3, 20, 100, 10000}

\* the box centred at the origin with half extents h
CenteredBox(h) == FoundBounds(<<-h[1], -h[2], -h[3]>>, <<h[1], h[2], h[3]>>)

\* every face of a lies strictly inside b
StrictlyInside(a, b) ==
    \A i \in 1..3 : b.min[i] < a.min[i] /\ a.max[i] < b.max[i]

ScaleInit ==
    /\ frame_current = 0
    /\ NotScaleIdle
    /\ sc_pc = "first"
    /\ volA \in {CenteredBox(h) : h \in HalfExtents \X HalfExtents \X HalfExtents}
    /\ volB \in {CenteredBox(h) : h \in HalfExtents \X HalfExtents \X HalfExtents}
    /\ StrictlyInside(volA, volB)
    /\ sc_resolution \in {<<1024, 1024>>, <<512, 1024>>, <<1024, 512>>}
    /\ scaleA = 0
    /\ scaleB = 0

\* setup_camera's scale for the contained volume
ScaleFirst ==
    /\ sc_pc = "first"
    /\ scaleA' = OrthoScale(VecSub(volA.max, volA.min), sc_resolution)
    /\ sc_pc' = "second"
    /\ UNCHANGED <<volA, volB, sc_resolution, scaleB>>
    /\ UNCHANGED notScaleVars

\* setup_camera's scale for the containing volume
ScaleSecond ==
    /\ sc_pc = "second"
    /\ scaleB' = OrthoScale(VecSub(volB.max, volB.min), sc_resolution)
    /\ sc_pc' = "done"
    /\ UNCHANGED <<volA, volB, sc_resolution, scaleA>>
    /\ UNCHANGED notScaleVars

ScaleNext == ScaleFirst \/ ScaleSecond

SpecScale == ScaleInit /\ [][ScaleNext]_vars

\* C8: for two non-degenerate volumes A and B where B strictly contains A,
\* at the same render aspect ratio, the orthographic scale computed for B is
\* at least the one computed for A, the small-scale replacement and the
\* default scale included.
C8_ScaleMonotone ==
    (sc_pc = "done") => (scaleB >= scaleA)

(***************************************************************************)
(* upload_file, from the creation of the working directory (line 511) to   *)
(* the end of the finally block.                                           *)
(*                                                                         *)
(* The angle list has at most MaxAngles entries in both modes (the         *)
(* auto-angles modes of the code make 16, 32 or 64); angles are in tenths  *)
(* of a degree.  The engine is the environment: each subprocess.run ends   *)
(* in one of the ways the handler distinguishes and leaves between 0 and   *)
(* MaxFrames frame files.  Opening or saving an image and writing the      *)
(* archive can fail; a failed save leaves no sheet file behind (Pillow     *)
(* removes the file it created).                                           *)
(***************************************************************************)
PixelStyles ==
    {"pixel_cel", "pixel_outline", "pixel_post_outline", "pixel_post_thin_outline"}

\* the styles of the model: one without post-processing and the pixel styles
ModelStyles ==
    {"bright", "pixel_cel", "pixel_post_outline", "pixel_post_thin_outline"}

\* angles_to_process, n entries: i * angle_step in auto-angles mode (16
\* angles, 22.5 degrees apart), the sorted selected angles otherwise
AngleList(mode, n) ==
    [i \in 1..n |-> IF mode # "off" THEN (i - 1) * 225 ELSE (i - 1) * 450]

\* use_flat_structure = (auto_angles_mode != 'off')
UseFlatStructure == auto_angles_mode # "off"

\* an entry of blender_errors
Error(kind, a) == [kind |-> kind, angle |-> a]

RECURSIVE SumTo(_, _)
SumTo(f, n) == IF n = 0 THEN 0 ELSE f[n] + SumTo(f, n - 1)

\* the number of frame files under base_temp_dir
TotalFrames(f) == SumTo(f, Len(f))

\* AfterEngineError with a fault: a timeout ends the loop
AfterEngineErrorTimeoutBreaks(kind) ==
    CASE kind = "exit_nonzero" -> "continue"
      [] kind = "timeout" -> "break"
      [] kind = "not_found" -> "break"
      [] OTHER -> "raise"

\* The except clauses of the per-angle try: CalledProcessError and
\* TimeoutExpired record the error and go on, FileNotFoundError records it
\* and breaks, any other exception reaches the outer handler.
AfterEngineError(kind) ==
    CASE kind = "exit_nonzero" -> "continue"
      [] kind = "timeout" -> "continue"
      [] kind = "not_found" -> "break"
      [] OTHER -> "raise"

\* if "Blender executable not found" in ''.join(blender_errors)
BlenderNotFoundRecorded(errors) ==
    \E i \in 1..Len(errors) : errors[i].kind = "not_found"

\* the errors appended for the angle directories S in sorted order
ErrorsFor(kind, S) ==
    [i \in 1..Cardinality(S) |-> Error(kind, SortedList(S)[i])]

\* a sheet file: the angle it belongs to (0: the single auto-angles sheet),
\* its number of tiles and the look of the frames pasted into it
Sheet(id, tiles, look) == [id |-> id, tiles |-> tiles, look |-> look]

\* items_to_finally_zip = [base_temp_dir]
TempDirItem == Sheet(-1, 0, "dir")

Bound(items) == [bound |-> TRUE, items |-> items]

\* the look of the frame files after the sheet branch: upscaled for the
\* pixel styles
LookForSheet(style, look) ==
    IF style \in PixelStyles THEN "upscaled" ELSE look

\* the look of the frame files after the zip branch: upscaled for the pixel
\* styles, then outlined for the post outline styles
LookForZip(style, look) ==
    IF style \in {"pixel_post_outline", "pixel_post_thin_outline"} THEN "outlined"
    ELSE IF style \in PixelStyles THEN "upscaled"
    ELSE look

\* zip_output's test of a directory:
\*   glob.glob(os.path.join(items_to_zip[0], '**', '*'), recursive=True)
\* which matches the angle subdirectories as well as the files
DirGlobNonEmpty(dirs, f) == dirs # {} \/ TotalFrames(f) > 0

\* SheetsRemovedInFinally with a fault: the sheets are left in place
SheetsRemovedInFinallyNone(type, items) == {}

\* "Cleanup individual sheets if they were created outside temp dir"
SheetsRemovedInFinally(type, items) ==
    IF type = "sheet" THEN items.items ELSE {}

\* the finally block reads items_to_finally_zip when output_type is 'sheet';
\* on the paths that leave the body before line 590 the name is unbound
FinallyRaises(type, items) == type = "sheet" /\ ~items.bound

UploadInit ==
    /\ frame_current = 0
    /\ NotUploadIdle
    /\ u_pc = "save"
    /\ auto_angles_mode \in {"off", "16"}
    /\ \E n \in 1..MaxAngles :
          /\ angles_to_process = AngleList(auto_angles_mode, n)
          /\ engine_outcome = [i \in 1..n |-> "none"]
          /\ frames = [i \in 1..n |-> 0]
    /\ output_type \in {"zip", "sheet"}
    /\ render_style \in ModelStyles
    /\ angle_i = 1
    /\ blender_errors = <<>>
    /\ input_exists = FALSE
    /\ temp_dir_exists = TRUE
    /\ angle_dirs = {}
    /\ frames_look = "raw"
    /\ sheets = {}
    /\ zip_exists = FALSE
    /\ zip_entries = 0
    /\ zip_created = FALSE
    /\ items_to_finally_zip = Unbound
    /\ frames_at_finalise = 0
    /\ frames_produced = 0
    /\ io_fault = FALSE
    /\ response = "none"

\* file.save(input_path)
UploadSaveFile ==
    /\ u_pc = "save"
    /\ \E r \in {"saved", "failed", "failed_partial"} :
          /\ input_exists' = (r # "failed")
          /\ u_pc' = IF r = "saved" THEN "loop" ELSE "except"
          /\ io_fault' = (io_fault \/ r # "saved")
    /\ UNCHANGED <<auto_angles_mode, angles_to_process, output_type, render_style,
                   angle_i, engine_outcome, blender_errors, temp_dir_exists,
                   angle_dirs, frames, frames_look, sheets, zip_exists,
                   zip_entries, zip_created, items_to_finally_zip,
                   frames_at_finalise, response>>
    /\ UNCHANGED frames_produced
    /\ UNCHANGED notUploadVars

\* One iteration of "for angle in angles_to_process": the angle directory
\* (manual mode), the engine run and the except clauses.
UploadProcessAngle ==
    /\ u_pc = "loop"
    /\ angle_i <= Len(angles_to_process)
    /\ \E kind \in {"ok", "exit_nonzero", "timeout", "not_found", "other_error"},
          k \in 0..MaxFrames :
          /\ (kind \in {"not_found", "other_error"}) => (k = 0)
          /\ angle_dirs' = IF UseFlatStructure THEN angle_dirs
                           ELSE angle_dirs \cup {angle_i}
          /\ frames' = [frames EXCEPT ![angle_i] = k]
          /\ engine_outcome' = [engine_outcome EXCEPT ![angle_i] = kind]
          /\ blender_errors' =
                IF kind # "ok" /\ AfterEngineError(kind) \in {"continue", "break"}
                THEN Append(blender_errors, Error(kind, angle_i))
                ELSE blender_errors
          /\ angle_i' =
                IF kind = "ok" \/ AfterEngineError(kind) = "continue"
                THEN angle_i + 1 ELSE angle_i
          /\ u_pc' =
                IF kind = "ok" \/ AfterEngineError(kind) = "continue" THEN "loop"
                ELSE IF AfterEngineError(kind) = "break" THEN "check"
                ELSE "except"
    /\ UNCHANGED <<auto_angles_mode, angles_to_process, output_type, render_style,
                   input_exists, temp_dir_exists, frames_look, sheets, zip_exists,
                   zip_entries, zip_created, items_to_finally_zip,
                   frames_at_finalise, response>>
    /\ frames_produced' = frames_produced + frames'[angle_i]
    /\ io_fault' = (io_fault \/ engine_outcome'[angle_i] = "other_error")
    /\ UNCHANGED notUploadVars

\* the angle list is exhausted
UploadLoopEnd ==
    /\ u_pc = "loop"
    /\ angle_i > Len(angles_to_process)
    /\ u_pc' = "check"
    /\ UNCHANGED <<auto_angles_mode, angles_to_process, output_type, render_style,
                   angle_i, engine_outcome, blender_errors, input_exists,
                   temp_dir_exists, angle_dirs, frames, frames_look, sheets,
                   zip_exists, zip_entries, zip_created, items_to_finally_zip,
                   frames_at_finalise, response>>
    /\ UNCHANGED <<frames_produced, io_fault>>
    /\ UNCHANGED notUploadVars

\* Lines 584-591: the early return when Blender was not found; otherwise
\* the locals of post-processing are initialised.
UploadCheckBlender ==
    /\ u_pc = "check"
    /\ IF BlenderNotFoundRecorded(blender_errors)
       THEN /\ response' = "blender_not_found_500"
            /\ u_pc' = "finally"
            /\ UNCHANGED <<zip_created, items_to_finally_zip, frames_at_finalise>>
       ELSE /\ zip_created' = FALSE
            /\ items_to_finally_zip' = Bound({})
            /\ frames_at_finalise' = TotalFrames(frames)
            /\ u_pc' = "post"
            /\ UNCHANGED response
    /\ UNCHANGED <<auto_angles_mode, angles_to_process, output_type, render_style,
                   angle_i, engine_outcome, blender_errors, input_exists,
                   temp_dir_exists, angle_dirs, frames, frames_look, sheets,
                   zip_exists, zip_entries>>
    /\ UNCHANGED <<frames_produced, io_fault>>
    /\ UNCHANGED notUploadVars

\* output_type == 'sheet': upscale, create_sprite_sheet per directory (the
\* source frames of a sheet are removed once it is saved), zip_output of the
\* sheets created.
UploadPostSheet ==
    /\ u_pc = "post"
    /\ output_type = "sheet"
    /\ frames_look' = LookForSheet(render_style, frames_look)
    /\ \E unreadable \in SUBSET (IF UseFlatStructure THEN {0} ELSE angle_dirs),
          zip_result \in {"written", "failed", "failed_partial"} :
          LET total == TotalFrames(frames)
              ok_dirs ==
                  IF UseFlatStructure
                  THEN IF total > 0 /\ 0 \notin unreadable THEN {0} ELSE {}
                  ELSE {a \in angle_dirs : frames[a] > 0 /\ a \notin unreadable}
              created ==
                  {Sheet(a, IF a = 0 THEN total ELSE frames[a], frames_look') :
                      a \in ok_dirs}
              failures ==
                  IF UseFlatStructure
                  THEN IF ok_dirs = {} THEN <<Error("sheet_failed", 0)>> ELSE <<>>
                  ELSE IF angle_dirs = {} THEN <<Error("no_angle_dirs", 0)>>
                  ELSE ErrorsFor("sheet_failed", angle_dirs \ ok_dirs)
          IN  /\ frames' = [a \in DOMAIN frames |->
                               IF 0 \in ok_dirs \/ a \in ok_dirs THEN 0
                               ELSE frames[a]]
              /\ blender_errors' = blender_errors \o failures
              /\ io_fault' = (io_fault
                                \/ (UseFlatStructure /\ total > 0 /\ ok_dirs = {})
                                \/ (\E a \in angle_dirs \ ok_dirs : frames[a] > 0)
                                \/ (created # {} /\ zip_result # "written"))
              /\ sheets' = sheets \cup created
              /\ IF created # {}
                 THEN /\ items_to_finally_zip' = Bound(created)
                      /\ zip_created' = (zip_result = "written")
                      /\ zip_exists' = (zip_result # "failed")
                      /\ zip_entries' = IF zip_result = "written"
                                        THEN Cardinality(created) ELSE 0
                 ELSE /\ zip_result = "failed"
                      /\ UNCHANGED <<items_to_finally_zip, zip_created,
                                     zip_exists, zip_entries>>
    /\ u_pc' = "respond"
    /\ UNCHANGED <<auto_angles_mode, angles_to_process, output_type, render_style,
                   angle_i, engine_outcome, input_exists, temp_dir_exists,
                   angle_dirs, frames_at_finalise, response>>
    /\ UNCHANGED frames_produced
    /\ UNCHANGED notUploadVars

\* output_type == 'zip': upscale and outline in place, then zip_output of
\* the working directory.
UploadPostZip ==
    /\ u_pc = "post"
    /\ output_type = "zip"
    /\ frames_look' = LookForZip(render_style, frames_look)
    /\ items_to_finally_zip' = Bound({TempDirItem})
    /\ \E zip_result \in {"written", "failed", "failed_partial"} :
          IF temp_dir_exists /\ ~DirGlobNonEmpty(angle_dirs, frames)
          THEN /\ zip_result = "failed"
               /\ UNCHANGED <<zip_created, zip_exists, zip_entries, io_fault>>
          ELSE /\ io_fault' = (io_fault \/ zip_result # "written")
               /\ zip_created' = (zip_result = "written")
               /\ zip_exists' = (zip_result # "failed")
               /\ zip_entries' = IF zip_result = "written"
                                 THEN TotalFrames(frames) ELSE 0
    /\ u_pc' = "respond"
    /\ UNCHANGED <<auto_angles_mode, angles_to_process, output_type, render_style,
                   angle_i, engine_outcome, blender_errors, input_exists,
                   temp_dir_exists, angle_dirs, frames, sheets,
                   frames_at_finalise, response>>
    /\ UNCHANGED frames_produced
    /\ UNCHANGED notUploadVars

\* "Final Response Handling"
UploadRespond ==
    /\ u_pc = "respond"
    /\ response' = IF zip_created /\ zip_exists THEN "redirect"
                   ELSE "processing_failed_500"
    /\ u_pc' = "finally"
    /\ UNCHANGED <<auto_angles_mode, angles_to_process, output_type, render_style,
                   angle_i, engine_outcome, blender_errors, input_exists,
                   temp_dir_exists, angle_dirs, frames, frames_look, sheets,
                   zip_exists, zip_entries, zip_created, items_to_finally_zip,
                   frames_at_finalise>>
    /\ UNCHANGED <<frames_produced, io_fault>>
    /\ UNCHANGED notUploadVars

\* except Exception as e: the outer handler
UploadOuterExcept ==
    /\ u_pc = "except"
    /\ blender_errors' = Append(blender_errors, Error("outer", 0))
    /\ response' = "unexpected_error_500"
    /\ u_pc' = "finally"
    /\ UNCHANGED <<auto_angles_mode, angles_to_process, output_type, render_style,
                   angle_i, engine_outcome, input_exists, temp_dir_exists,
                   angle_dirs, frames, frames_look, sheets, zip_exists,
                   zip_entries, zip_created, items_to_finally_zip,
                   frames_at_finalise>>
    /\ UNCHANGED <<frames_produced, io_fault>>
    /\ UNCHANGED notUploadVars

\* finally: the input file and the working directory are removed, then the
\* sheets named by items_to_finally_zip; reading that name while it is
\* unbound raises, and the exception replaces the response of the body.
UploadFinally ==
    /\ u_pc = "finally"
    /\ input_exists' = FALSE
    /\ temp_dir_exists' = FALSE
    /\ angle_dirs' = {}
    /\ frames' = [a \in DOMAIN frames |-> 0]
    /\ IF FinallyRaises(output_type, items_to_finally_zip)
       THEN /\ response' = "unhandled_exception"
            /\ UNCHANGED sheets
       ELSE /\ sheets' = sheets \ SheetsRemovedInFinally(output_type, items_to_finally_zip)
            /\ UNCHANGED response
    /\ u_pc' = "done"
    /\ UNCHANGED <<auto_angles_mode, angles_to_process, output_type, render_style,
                   angle_i, engine_outcome, blender_errors, frames_look,
                   zip_exists, zip_entries, zip_created, items_to_finally_zip,
                   frames_at_finalise>>
    /\ UNCHANGED <<frames_produced, io_fault>>
    /\ UNCHANGED notUploadVars

Next ==
    \/ UploadSaveFile
    \/ UploadProcessAngle
    \/ UploadLoopEnd
    \/ UploadCheckBlender
    \/ UploadPostSheet
    \/ UploadPostZip
    \/ UploadRespond
    \/ UploadOuterExcept
    \/ UploadFinally

Spec == UploadInit /\ [][Next]_vars

(***************************************************************************)
(* Claims about upload_file.                                               *)
(***************************************************************************)
\* the angles whose engine run has been started
Invoked == {i \in DOMAIN engine_outcome : engine_outcome[i] # "none"}

RecordedError(kind, i) ==
    \E j \in 1..Len(blender_errors) : blender_errors[j] = Error(kind, i)

\* C3: when the engine run of one angle ends with a non-zero exit or a
\* timeout, the error is in the diagnostics list and the loop goes on to the
\* next angle of the list (which is invoked before the loop is left); when
\* the executable is missing, the error is recorded, no later angle is
\* invoked, and the request does not end in a redirect to a download.
C3_PerAngleFailures ==
    \A i \in DOMAIN engine_outcome :
        /\ engine_outcome[i] \in {"exit_nonzero", "timeout"} =>
              /\ RecordedError(engine_outcome[i], i)
              /\ angle_i > i
              /\ (i < Len(angles_to_process) /\ u_pc # "loop") => (i + 1 \in Invoked)
        /\ engine_outcome[i] = "not_found" =>
              /\ RecordedError("not_found", i)
              /\ u_pc # "loop"
              /\ \A j \in DOMAIN engine_outcome : j > i => j \notin Invoked
              /\ response # "redirect"
              /\ ~zip_created
              /\ u_pc = "done" => response \in {"blender_not_found_500",
                                                "unhandled_exception"}

\* a finished request whose first angle timed out, whose second angle found
\* no executable and whose third angle was never started
C3_Witness ==
    /\ u_pc = "done"
    /\ Len(angles_to_process) >= 3
    /\ engine_outcome[1] = "timeout"
    /\ engine_outcome[2] = "not_found"
    /\ engine_outcome[3] = "none"
    /\ Len(blender_errors) = 2

\* C4: in both output modes and both layouts, if no frame file exists in
\* the working directory when finalisation starts, no archive is reported
\* as created and the request does not redirect to a download.
C4_NoFramesNoArchive ==
    (u_pc \in {"respond", "finally", "done"} /\ frames_at_finalise = 0)
        => (~zip_created /\ response # "redirect")

RECURSIVE Digits(_)
\* the decimal digits of a natural number, most significant first
Digits(k) == IF k < 10 THEN <<k>> ELSE Append(Digits(k \div 10), k % 10)

RECURSIVE ZeroPad(_, _)
\* format(k, "04d"): the digits, padded with zeros on the left to width w
ZeroPad(d, w) == IF Len(d) >= w THEN d ELSE ZeroPad(<<0>> \o d, w)

RECURSIVE DigitsValue(_)
\* the number a sequence of digits denotes
DigitsValue(d) ==
    IF d = <<>> THEN 0
    ELSE 10 * DigitsValue(SubSeq(d, 1, Len(d) - 1)) + d[Len(d)]

\* FrameFilenameBase with a fault: the source frame number is formatted
FrameFilenameBaseBySource(output_name, index, frame) ==
    [base |-> output_name, digits |-> ZeroPad(Digits(frame), 4)]

\* frame_filename_base = f"{output_name}_{frame_index:04d}"
FrameFilenameBase(output_name, index, frame) ==
    [base |-> output_name, digits |-> ZeroPad(Digits(index), 4)]

\* expected_filepath = f"{scene.render.filepath}.{file_extension}"
ExpectedFilepath(filename_base, ext) ==
    [base |-> filename_base.base, digits |-> filename_base.digits, ext |-> ext]

\* the first frames of the ranges the loop is run on
RenderStarts == {1, 12}

RenderInit ==
    /\ frame_current = 0
    /\ NotRenderIdle
    /\ r_pc = "render"
    /\ \E st \in RenderStarts, span \in 0..MaxSpan, num \in 1..MaxNum :
          r_frames = SampleFrames(st, st + span, num)
    /\ file_extension \in {"png", "webp"}
    /\ frame_index = 0
    /\ render_log = <<>>

\* One iteration: frame_set, the file path from frame_index, the render,
\* the existence test (which only prints), frame_index += 1.
RenderFrame ==
    /\ r_pc = "render"
    /\ frame_index < Len(r_frames)
    /\ LET frame == r_frames[frame_index + 1]
           path == ExpectedFilepath(
                       FrameFilenameBase("sprite", frame_index, frame),
                       file_extension)
       IN  /\ frame_current' = frame
           /\ \E written \in BOOLEAN :
                 render_log' = Append(render_log,
                     [filepath |-> path, source |-> frame, exists |-> written])
    /\ frame_index' = frame_index + 1
    /\ UNCHANGED <<r_pc, r_frames, file_extension>>
    /\ UNCHANGED notRenderVars

\* bpy.ops.render.render raises: the exception leaves render_animation
RenderFrameRaises ==
    /\ r_pc = "render"
    /\ frame_index < Len(r_frames)
    /\ frame_current' = r_frames[frame_index + 1]
    /\ r_pc' = "raised"
    /\ UNCHANGED <<r_frames, file_extension, frame_index, render_log>>
    /\ UNCHANGED notRenderVars

\* the list is exhausted: "Rendering finished."
RenderFinished ==
    /\ r_pc = "render"
    /\ frame_index = Len(r_frames)
    /\ r_pc' = "done"
    /\ UNCHANGED <<frame_current, r_frames, file_extension, frame_index, render_log>>
    /\ UNCHANGED notRenderVars

RenderNext ==
    \/ RenderFrame
    \/ RenderFrameRaises
    \/ RenderFinished

SpecRender == RenderInit /\ [][RenderNext]_vars

\* C11: the k-th sampled frame (k from 0, in increasing source order) goes
\* to {output_name}_{k, four digits}.{ext}; the indices used are 0..n-1
\* without gaps whatever the source frame numbers are, and an iteration
\* whose file is missing neither stops the loop nor changes the index of
\* the frames after it.
C11_SequentialNames ==
    /\ Len(render_log) = frame_index
    /\ \A k \in 1..Len(render_log) :
          /\ render_log[k].source = r_frames[k]
          /\ render_log[k].filepath.base = "sprite"
          /\ render_log[k].filepath.ext = file_extension
          /\ Len(render_log[k].filepath.digits) = 4
          /\ DigitsValue(render_log[k].filepath.digits) = k - 1
          /\ k > 1 => render_log[k].source > render_log[k - 1].source
    /\ (r_pc = "done") => (Len(render_log) = Len(r_frames))

\* a finished loop over three or more frames whose source numbers differ
\* from the indices, the second file missing and the third one written as
\* index 2
C11_Witness ==
    /\ r_pc = "done"
    /\ Len(render_log) >= 3
    /\ r_frames[1] = 12
    /\ ~render_log[2].exists
    /\ render_log[3].exists
    /\ render_log[3].filepath.digits = <<0, 0, 0, 2>>
    /\ render_log[3].source > 13

(***************************************************************************)
(* create_sprite_sheet (app.py 116-202).                                   *)
(*                                                                         *)
(* The frame files of the folder that match the pattern have the names     *)
(* 1..n, each with a size <<width, height>> in pixels.  Image.open of a    *)
(* file, the assembly of the strip and the save are the environment: each  *)
(* can fail, and every failure is caught inside the function.  A failed    *)
(* save leaves no file at output_sheet_path.                               *)
(***************************************************************************)
MAX_WEBP_DIMENSION == 16383

\* the sizes a frame file can have
SheetFrameSizes ==
    {<<1024, 1024>>, <<5461, 128>>, <<16383, 16383>>, <<128, 16384>>}

\* SheetEncoding with a fault: a dimension equal to the limit falls back
SheetEncodingAtLimit(format, total_width, height) ==
    IF format = "WEBP"
    THEN IF total_width >= MAX_WEBP_DIMENSION \/ height >= MAX_WEBP_DIMENSION
         THEN "PNG" ELSE "WEBP"
    ELSE "PNG"

\* Lines 161-183: the format handed to sprite_sheet.save
SheetEncoding(format, total_width, height) ==
    IF format = "WEBP"
    THEN IF total_width > MAX_WEBP_DIMENSION \/ height > MAX_WEBP_DIMENSION
         THEN "PNG" ELSE "WEBP"
    ELSE "PNG"

\* NextXOffset with a fault: the offset advances by twice the width
NextXOffsetDouble(x_offset, width) == x_offset + 2 * width

\* x_offset += width
NextXOffset(x_offset, width) == x_offset + width

RECURSIVE PasteFrom(_, _, _, _)
\* the paste loop from the i-th image on: each image goes to (x_offset, 0)
PasteFrom(imgs, i, x_offset, width) ==
    IF i > Len(imgs) THEN <<>>
    ELSE <<[x |-> x_offset, file |-> imgs[i], size |-> frame_info[imgs[i]].size]>>
         \o PasteFrom(imgs, i + 1, NextXOffset(x_offset, width), width)

\* Lines 146-158: the strip is as wide as the first image times the number
\* of images and as high as the first image
AssembleSheet(imgs) ==
    LET width == frame_info[imgs[1]].size[1]
        height == frame_info[imgs[1]].size[2]
    IN  [size |-> <<width * Len(imgs), height>>,
         tiles |-> PasteFrom(imgs, 1, 0, width)]

\* SourceFramesRemoved with a fault: the frames are removed even when the
\* save failed
SourceFramesRemovedAlways(saved, files) == {files[i] : i \in 1..Len(files)}

\* "Clean up individual frames after successful sprite sheet creation"
SourceFramesRemoved(saved, files) ==
    IF saved THEN {files[i] : i \in 1..Len(files)} ELSE {}

SheetInit ==
    /\ frame_current = 0
    /\ NotSheetIdle
    /\ sh_pc = "glob"
    /\ \E n \in 0..MaxSheetFrames :
          /\ frame_info \in
                [1..n -> [size : SheetFrameSizes, openable : BOOLEAN]]
          /\ folder_files = 1..n
    /\ output_sheet_format \in {"PNG", "WEBP"}
    /\ sh_frame_files = <<>>
    /\ images = <<>>
    /\ sprite_sheet = NoSheet
    /\ sheet_file = NoSheetFile
    /\ sh_result = "none"

\* frame_files = sorted(glob.glob(frame_pattern)); return False if empty
SheetGlob ==
    /\ sh_pc = "glob"
    /\ sh_frame_files' = SortedList(folder_files)
    /\ IF folder_files = {}
       THEN sh_pc' = "returned" /\ sh_result' = "False"
       ELSE sh_pc' = "open" /\ UNCHANGED sh_result
    /\ UNCHANGED <<frame_info, folder_files, output_sheet_format, images,
                   sprite_sheet, sheet_file>>
    /\ UNCHANGED notSheetVars

\* One iteration of the loading loop: Image.open(f); a file that cannot be
\* opened closes the images opened so far and returns False.
SheetOpenImage ==
    /\ sh_pc = "open"
    /\ Len(images) < Len(sh_frame_files)
    /\ LET f == sh_frame_files[Len(images) + 1]
       IN  IF frame_info[f].openable
           THEN /\ images' = Append(images, f)
                /\ UNCHANGED <<sh_pc, sh_result>>
           ELSE /\ images' = <<>>
                /\ sh_pc' = "returned"
                /\ sh_result' = "False"
    /\ UNCHANGED <<frame_info, folder_files, output_sheet_format,
                   sh_frame_files, sprite_sheet, sheet_file>>
    /\ UNCHANGED notSheetVars

\* Lines 146-158: Image.new and the paste loop; an exception in them is
\* caught at line 195 and the function returns False.
SheetPaste ==
    /\ sh_pc = "open"
    /\ Len(images) = Len(sh_frame_files)
    /\ \E assembled \in BOOLEAN :
          IF assembled
          THEN /\ sprite_sheet' = AssembleSheet(images)
               /\ images' = <<>>
               /\ sh_pc' = "save"
               /\ UNCHANGED sh_result
          ELSE /\ sh_pc' = "returned"
               /\ sh_result' = "False"
               /\ UNCHANGED <<sprite_sheet, images>>
    /\ UNCHANGED <<frame_info, folder_files, output_sheet_format,
                   sh_frame_files, sheet_file>>
    /\ UNCHANGED notSheetVars

\* Lines 160-198: the format, sprite_sheet.save, the removal of the source
\* frames and the return.
SheetSave ==
    /\ sh_pc = "save"
    /\ \E saved \in BOOLEAN :
          /\ sheet_file' =
                IF saved
                THEN [exists |-> TRUE,
                      encoding |-> SheetEncoding(output_sheet_format,
                                       sprite_sheet.size[1], sprite_sheet.size[2]),
                      size |-> sprite_sheet.size,
                      tiles |-> sprite_sheet.tiles]
                ELSE NoSheetFile
          /\ folder_files' =
                folder_files \ SourceFramesRemoved(saved, sh_frame_files)
          /\ sh_result' = IF saved THEN "True" ELSE "False"
    /\ sh_pc' = "returned"
    /\ UNCHANGED <<frame_info, output_sheet_format, sh_frame_files, images,
                   sprite_sheet>>
    /\ UNCHANGED notSheetVars

SheetNext ==
    \/ SheetGlob
    \/ SheetOpenImage
    \/ SheetPaste
    \/ SheetSave

SpecSheet == SheetInit /\ [][SheetNext]_vars

\* the strip handed to the save exceeds the WebP limit in width or height
SheetExceedsLimit ==
    \/ sprite_sheet.size[1] > MAX_WEBP_DIMENSION
    \/ sprite_sheet.size[2] > MAX_WEBP_DIMENSION

\* C12: with requested format WEBP, a strip whose total width or height
\* exceeds 16383 is saved in PNG encoding and the function returns True
\* without raising; a strip within the limit is saved as WebP.  (The save
\* itself succeeding is the premise: a sheet file exists.)
C12_WebpFallback ==
    /\ (sh_pc = "returned") => (sh_result \in {"True", "False"})
    /\ (sh_pc = "returned" /\ output_sheet_format = "WEBP" /\ sheet_file.exists) =>
          /\ sh_result = "True"
          /\ sheet_file.encoding = IF SheetExceedsLimit THEN "PNG" ELSE "WEBP"

\* a WEBP request whose strip of three frames is 3 * 5461 = 16383 wide was
\* saved as WebP
C12_Witness ==
    /\ sh_pc = "returned"
    /\ output_sheet_format = "WEBP"
    /\ sheet_file.exists
    /\ sheet_file.size[1] = MAX_WEBP_DIMENSION
    /\ Len(sheet_file.tiles) > 1
    /\ sheet_file.encoding = "WEBP"

\* all the frame files have the size of the first one
SameSizeFrames ==
    \A f \in DOMAIN frame_info : frame_info[f].size = frame_info[1].size

\* C13: for N frames of width W and height H taken in sorted file name
\* order the saved sheet is N*W wide and H high, the i-th frame (from 0)
\* is pasted at x = i*W, and cutting the sheet into N tiles of equal width
\* gives back the frame boundaries.
C13_SheetLayout ==
    (sh_pc = "returned" /\ sheet_file.exists /\ SameSizeFrames) =>
        LET N == Len(sh_frame_files)
            W == frame_info[1].size[1]
            H == frame_info[1].size[2]
        IN  /\ sheet_file.size = <<N * W, H>>
            /\ Len(sheet_file.tiles) = N
            /\ \A i \in 1..N :
                  /\ sheet_file.tiles[i].file = sh_frame_files[i]
                  /\ sheet_file.tiles[i].x = (i - 1) * W
                  /\ sheet_file.tiles[i].x = (i - 1) * (sheet_file.size[1] \div N)
                  /\ sheet_file.tiles[i].size = <<W, H>>
                  /\ i > 1 => sh_frame_files[i] > sh_frame_files[i - 1]

\* a sheet of three frames of 1024 x 1024 pixels
C13_Witness ==
    /\ sh_pc = "returned"
    /\ sheet_file.exists
    /\ SameSizeFrames
    /\ Len(sheet_file.tiles) = 3
    /\ sheet_file.size = <<3072, 1024>>
    /\ sheet_file.tiles[3].x = 2048

ValidStyles ==
    {"bright", "cel", "unlit", "original_unlit", "wireframe", "clay",
     "pixel_cel", "cel_outline", "cel_thicker_outline", "pixel_outline",
     "pixel_post_outline", "pixel_post_thin_outline"}

\* choices of --render_style in the render script
EngineStyles ==
    ValidStyles \cup {"blueprint", "halftone", "hatched", "glitch", "ascii_art"}

\* the styles a form of the model asks for: two that upload_file knows, one
\* that only the render script knows, one that nothing knows
FormStyles == {"bright", "pixel_cel", "blueprint", "sketch"}

\* the texts of a ticked standard angle box
FormStdAngles == {Text, Num(900), Num(7200)}

\* the texts of the custom angle field
FormCustomAngles == {Text, Num(-50), Num(4000)}

\* the texts of the num_frames field
FormNumFrames == {Absent, Text, Num(0), Num(101)}

\* the texts of the pixel_resolution field
FormPixelResolutions == {Absent, Text, Num(8), Num(1000)}

RECURSIVE SeqsUpTo(_, _)
\* the sequences over S of length at most n
SeqsUpTo(S, n) ==
    IF n = 0 THEN {<<>>}
    ELSE LET shorter == SeqsUpTo(S, n - 1)
         IN  shorter \cup {Append(q, x) : q \in shorter, x \in S}

\* num_frames = max(1, min(num_frames, 100))
ClampNumFrames(n) == Max2(1, Min2(n, 100))

\* max(0.0, min(custom_angle, 360.0))
ClampCustomAngle(a) == Max2(0, Min2(a, 3600))

\* pixel_resolution = max(16, min(pixel_resolution, 256))
ClampPixelResolution(r) == Max2(16, Min2(r, 256))

\* angles_to_process of the auto-angles mode: i * (360 / 16)
AutoAngles == [i \in 1..16 |-> (i - 1) * 225]

\* The "Get Form Data" block of upload_file: the parsed values, or the
\* reason of the 400 response.
ParseUpload(f) ==
    LET manual == f.auto_angles_mode = "off"
        std_bad == \E i \in 1..Len(f.angles) : f.angles[i].kind = "text"
        custom_read == f.custom_angle_enabled /\ f.custom_angle_value.kind # "absent"
        custom_bad == custom_read /\ f.custom_angle_value.kind = "text"
        selected ==
            {f.angles[i].val : i \in 1..Len(f.angles)}
            \cup (IF custom_read /\ ~custom_bad
                  THEN {ClampCustomAngle(f.custom_angle_value.val)} ELSE {})
        style == IF f.render_style \in ValidStyles THEN f.render_style ELSE "bright"
        pixel_read == style \in PixelStyles
        value_error ==
            \/ manual /\ (std_bad \/ custom_bad)
            \/ manual /\ selected # {} /\ f.num_frames.kind = "text"
            \/ (manual => selected # {})
               /\ pixel_read /\ f.pixel_resolution.kind = "text"
    IN  IF value_error
        THEN [ok |-> FALSE, reason |-> "400_invalid_format"]
        ELSE IF manual /\ selected = {}
        THEN [ok |-> FALSE, reason |-> "400_no_angles"]
        ELSE [ok |-> TRUE,
              angles |-> IF manual THEN SortedList(selected) ELSE AutoAngles,
              num_frames |->
                  IF ~manual THEN 1
                  ELSE IF f.num_frames.kind = "absent" THEN 16
                  ELSE ClampNumFrames(f.num_frames.val),
              render_style |-> style,
              pixel_resolution |->
                  IF ~pixel_read THEN Absent
                  ELSE IF f.pixel_resolution.kind = "absent" THEN Num(128)
                  ELSE Num(ClampPixelResolution(f.pixel_resolution.val))]

\* the command of one angle in upload_file (lines 541-555)
UploadCommand(angle, p) ==
    [angle |-> Num(angle),
     num_frames |-> Num(p.num_frames),
     render_style |-> p.render_style,
     pixel_resolution |->
         IF p.pixel_resolution.kind # "absent" /\ p.render_style \in PixelStyles
         THEN p.pixel_resolution ELSE Absent]

\* the angle of preview_render (lines 289-293): the custom angle text if
\* there is one and the box is enabled, else the first standard angle, else '0'
PreviewAngle(f) ==
    IF f.custom_angle_value.kind = "absent" \/ ~f.custom_angle_enabled
    THEN IF Len(f.angles) > 0 THEN f.angles[1] ELSE Num(0)
    ELSE f.custom_angle_value

\* cmd_args of preview_render (lines 313-325): the form texts as they are
PreviewCommand(f) ==
    [angle |-> PreviewAngle(f),
     num_frames |-> Num(1),
     render_style |-> f.render_style,
     pixel_resolution |->
         IF f.pixel_resolution.kind = "absent" THEN Num(128)
         ELSE f.pixel_resolution]

\* parser.parse_args of the render script: a style outside the choices or
\* a text where a number is due ends the process with a usage error;
\* otherwise the style of the command line is rendered
EngineParse(cmd) ==
    IF \/ cmd.render_style \notin EngineStyles
       \/ cmd.angle.kind = "text"
       \/ cmd.pixel_resolution.kind = "text"
    THEN "usage_error"
    ELSE cmd.render_style

RequestInit ==
    /\ frame_current = 0
    /\ NotRequestIdle
    /\ q_pc = "file"
    /\ route \in {"upload", "preview"}
    /\ form \in
          [file : {"bad_ext", "fbx"},
           auto_angles_mode : {"off", "16", "weird"},
           angles : SeqsUpTo(FormStdAngles, MaxStdAngles),
           custom_angle_enabled : BOOLEAN,
           custom_angle_value : FormCustomAngles,
           num_frames : FormNumFrames,
           render_style : FormStyles,
           pixel_resolution : FormPixelResolutions]
    \* preview_render reads neither auto_angles_mode nor num_frames
    /\ (route = "preview") =>
          (form.auto_angles_mode = "off" /\ form.num_frames = Absent)
    /\ q_params = NoParams
    /\ q_workdir = FALSE
    /\ invocations = <<>>
    /\ rendered = <<>>
    /\ q_response = "none"

\* allowed_file(file.filename), the first test of both routes
RequestCheckFile ==
    /\ q_pc = "file"
    /\ IF form.file = "fbx"
       THEN q_pc' = "parse" /\ UNCHANGED q_response
       ELSE q_pc' = "done" /\ q_response' = "400_invalid_file"
    /\ UNCHANGED <<route, form, q_params, q_workdir, invocations, rendered>>
    /\ UNCHANGED notRequestVars

\* upload_file, lines 440-512: the form is parsed; a ValueError or an empty
\* angle set returns 400, otherwise the working directory is made
UploadParseForm ==
    /\ q_pc = "parse"
    /\ route = "upload"
    /\ LET p == ParseUpload(form)
       IN  IF p.ok
           THEN /\ q_params' = p
                /\ q_workdir' = TRUE
                /\ q_pc' = "invoke"
                /\ UNCHANGED q_response
           ELSE /\ q_response' = p.reason
                /\ q_pc' = "done"
                /\ UNCHANGED <<q_params, q_workdir>>
    /\ UNCHANGED <<route, form, invocations, rendered>>
    /\ UNCHANGED notRequestVars

\* upload_file, lines 524-688: one command per angle; the response depends
\* on what the engine runs leave behind
UploadInvokeAngles ==
    /\ q_pc = "invoke"
    /\ route = "upload"
    /\ invocations' = [i \in 1..Len(q_params.angles) |->
                          UploadCommand(q_params.angles[i], q_params)]
    /\ rendered' = [i \in 1..Len(q_params.angles) |->
                       EngineParse(UploadCommand(q_params.angles[i], q_params))]
    /\ q_response' \in {"redirect", "500"}
    /\ q_pc' = "done"
    /\ UNCHANGED <<route, form, q_params, q_workdir>>
    /\ UNCHANGED notRequestVars

\* preview_render, lines 287-410: the command is built from the form texts
\* and run; the frame goes to the shared preview folder
PreviewRender ==
    /\ q_pc = "parse"
    /\ route = "preview"
    /\ LET cmd == PreviewCommand(form)
       IN  /\ invocations' = <<cmd>>
           /\ rendered' = <<EngineParse(cmd)>>
           /\ \E found \in BOOLEAN :
                 q_response' = IF EngineParse(cmd) # "usage_error" /\ found
                               THEN "preview_ok" ELSE "500"
    /\ q_pc' = "done"
    /\ UNCHANGED <<route, form, q_params, q_workdir>>
    /\ UNCHANGED notRequestVars

RequestNext ==
    \/ RequestCheckFile
    \/ UploadParseForm
    \/ UploadInvokeAngles
    \/ PreviewRender

SpecRequest == RequestInit /\ [][RequestNext]_vars

\* a number outside [lo, hi]
OutOfRange(field, lo, hi) ==
    field.kind = "num" /\ (field.val < lo \/ field.val > hi)

\* the responses with status 400
RejectedResponses == {"400_invalid_file", "400_invalid_format", "400_no_angles"}

\* C14: for a style identifier that is not one of the supported styles
\* (including the styles only the render script accepts), both routes
\* render with 'bright' instead of aborting the request.
C14_UnknownStyleDegrades ==
    (q_pc = "done" /\ form.render_style \notin ValidStyles /\ invocations # <<>>)
        => \A i \in 1..Len(rendered) : rendered[i] = "bright"

\* C15: every engine command issued by either route carries an angle in
\* [0, 360], a frame count in [1, 100] and, for the pixel styles, a pixel
\* resolution in [16, 256], whatever the form supplied.
C15_ParametersInRange ==
    \A i \in 1..Len(invocations) :
        /\ invocations[i].angle.kind = "num"
        /\ ~OutOfRange(invocations[i].angle, 0, 3600)
        /\ invocations[i].num_frames.kind = "num"
        /\ ~OutOfRange(invocations[i].num_frames, 1, 100)
        /\ invocations[i].render_style \in PixelStyles =>
              /\ invocations[i].pixel_resolution.kind = "num"
              /\ ~OutOfRange(invocations[i].pixel_resolution, 16, 256)

\* an upload form holds a bad file type, or an out-of-range value in a field
\* that upload_file reads: an angle or the frame count in manual mode, the
\* pixel resolution for a pixel style
InvalidInput ==
    /\ route = "upload"
    /\ \/ form.file = "bad_ext"
       \/ /\ form.auto_angles_mode = "off"
          /\ \/ \E i \in 1..Len(form.angles) : OutOfRange(form.angles[i], 0, 3600)
             \/ form.custom_angle_enabled
                /\ OutOfRange(form.custom_angle_value, 0, 3600)
             \/ OutOfRange(form.num_frames, 1, 100)
       \/ /\ form.render_style \in PixelStyles
          /\ OutOfRange(form.pixel_resolution, 16, 256)

\* C16: a request with a bad file type or an out-of-range angle, frame
\* count or pixel resolution is rejected with an error response, no engine
\* command is issued and no working directory is made for it.
C16_InvalidInputRejected ==
    (q_pc = "done" /\ InvalidInput) =>
        /\ q_response \in RejectedResponses
        /\ invocations = <<>>
        /\ ~q_workdir

(***************************************************************************)
(* Requests running at the same time.                                      *)
(*                                                                         *)
(* Each request has its own uuid4, here its number.  upload_file renders   *)
(* into OUTPUT_FOLDER/frames_<uuid> (app.py 506); preview_render renders   *)
(* into PREVIEW_FOLDER itself (app.py 307) with the id in the file name.   *)
(* upscale_pixelated_frames(folder) opens and rewrites every *.png and     *)
(* *.webp file of the folder it is given (app.py 77-100).                  *)
(***************************************************************************)
Requests == 1..MaxRequests

\* the directory a request renders into and post-processes
WorkingDir(rt, id) ==
    IF rt = "upload" THEN [name |-> "frames", id |-> id]
    ELSE [name |-> "previews", id |-> 0]

\* the frame files upscale_pixelated_frames(folder) processes
FilesOfFolder(folder, files) == {f \in files : f.dir = folder}

IsolationInit ==
    /\ frame_current = 0
    /\ NotIsolationIdle
    /\ i_pc = [r \in Requests |-> "render"]
    /\ i_route \in [Requests -> {"upload", "preview"}]
    /\ i_pixel_style \in [Requests -> BOOLEAN]
    /\ i_files = {}
    /\ i_touched = {}

\* the engine run of request r writes its frame into the request's directory
IsoRender(r) ==
    /\ i_pc[r] = "render"
    /\ i_files' = i_files \cup
                     {[dir |-> WorkingDir(i_route[r], r), producer |-> r]}
    /\ i_pc' = [i_pc EXCEPT ![r] = "post"]
    /\ UNCHANGED <<i_route, i_pixel_style, i_touched>>
    /\ UNCHANGED notIsolationVars

\* for a pixel style: upscale_pixelated_frames on the request's directory
\* (app.py 343-345, 604-606, 649-653)
IsoPostProcess(r) ==
    /\ i_pc[r] = "post"
    /\ i_touched' =
          IF i_pixel_style[r]
          THEN i_touched \cup
                  {[by |-> r, producer |-> f.producer, op |-> "upscale"] :
                      f \in FilesOfFolder(WorkingDir(i_route[r], r), i_files)}
          ELSE i_touched
    /\ i_pc' = [i_pc EXCEPT ![r] = "cleanup"]
    /\ UNCHANGED <<i_route, i_pixel_style, i_files>>
    /\ UNCHANGED notIsolationVars

\* upload_file removes its working directory (app.py 704-705);
\* preview_render removes only its input file and leaves the frame
IsoCleanup(r) ==
    /\ i_pc[r] = "cleanup"
    /\ LET mine == FilesOfFolder(WorkingDir(i_route[r], r), i_files)
       IN  IF i_route[r] = "upload"
           THEN /\ i_files' = i_files \ mine
                /\ i_touched' = i_touched \cup
                      {[by |-> r, producer |-> f.producer, op |-> "delete"] :
                          f \in mine}
           ELSE UNCHANGED <<i_files, i_touched>>
    /\ i_pc' = [i_pc EXCEPT ![r] = "done"]
    /\ UNCHANGED <<i_route, i_pixel_style>>
    /\ UNCHANGED notIsolationVars

IsolationNext ==
    \/ \E r \in Requests : IsoRender(r)
    \/ \E r \in Requests : IsoPostProcess(r)
    \/ \E r \in Requests : IsoCleanup(r)

SpecIsolation == IsolationInit /\ [][IsolationNext]_vars

\* C17: any two requests running at the same time work in disjoint
\* directories, so no request's upscale, outline, sheet or cleanup step
\* reads, rewrites or deletes a frame file another request produced.
C17_RequestsIsolated ==
    /\ \A f, g \in i_files : f.producer # g.producer => f.dir # g.dir
    /\ \A t \in i_touched : t.by = t.producer

(***************************************************************************)
(* Further claims about upload_file.                                       *)
(***************************************************************************)
\* the responses with a failure status: the three 500 responses of the
\* handler and the 500 the framework makes of an exception that leaves it
FailureResponses ==
    {"processing_failed_500", "unexpected_error_500", "blender_not_found_500",
     "unhandled_exception"}

\* C18: if the engine executable exists and at least one angle produced a
\* frame, the request ends with a successful archive even when other
\* angles failed or timed out, and their errors are in the diagnostics
\* list; if no frame was produced the request returns a failure status.
\* (The first half is read for requests in which nothing but engine runs
\* failed.)
C18_BestEffort ==
    (u_pc = "done") =>
        /\ (frames_produced > 0 /\ ~io_fault
               /\ ~BlenderNotFoundRecorded(blender_errors)) =>
              /\ response = "redirect"
              /\ zip_exists
              /\ zip_entries > 0
              /\ \A i \in DOMAIN engine_outcome :
                    engine_outcome[i] \in {"exit_nonzero", "timeout"} =>
                        RecordedError(engine_outcome[i], i)
        /\ (frames_produced = 0) => (response \in FailureResponses)

\* the styles with the outline overlay
PostOutlineStyles == {"pixel_post_outline", "pixel_post_thin_outline"}

\* C19: for the post-outline styles, in both output modes and both
\* layouts, every frame is upscaled and then outlined before it goes into
\* a sheet or into the archive; sheet output contains outlined frames.
C19_PostOutlineApplied ==
    (render_style \in PostOutlineStyles) =>
        /\ \A s \in sheets : s.look = "outlined"
        /\ (output_type = "zip" /\ zip_created /\ zip_entries > 0) =>
              (frames_look = "outlined")

(***************************************************************************)
(* A further claim about the frame sampling of render_animation.           *)
(***************************************************************************)
\* C26: whenever the requested frame count and the number of source frames
\* are both >= 2, the sampled list has exactly min(frame count, number of
\* source frames) elements: the rounded positions are pairwise distinct and
\* the de-duplication removes nothing; range 1..100 with frame count 16
\* gives 16 frames.
C26_NoFrameLostToRounding ==
    (/\ s_pc = "done"
     /\ num_frames_to_render >= 2
     /\ end_frame - start_frame + 1 >= 2) =>
        /\ Len(frames_to_render) =
              Min2(num_frames_to_render, end_frame - start_frame + 1)
        /\ \A i, j \in 0..(Len(frames_to_render) - 1) :
              i # j =>
                CurrentFrame(start_frame, end_frame, Len(frames_to_render), i) #
                CurrentFrame(start_frame, end_frame, Len(frames_to_render), j)
        /\ Len(SampleFrames(1, 100, 16)) = 16

\* fewer frames requested than the range holds, at a step that is no
\* integer, so that inner positions are rounded
C26_Witness ==
    /\ s_pc = "done"
    /\ num_frames_to_render >= 3
    /\ end_frame - start_frame + 1 > num_frames_to_render
    /\ (end_frame - start_frame) % (num_frames_to_render - 1) # 0
    /\ Len(frames_to_render) = num_frames_to_render

\* the responses the body of upload_file chooses (app.py 585, 682, 688, 697)
BodyResponses ==
    {"blender_not_found_500", "redirect", "processing_failed_500",
     "unexpected_error_500"}

\* C29: on every exit path through the body of upload_file, the early
\* "Blender not found" return included, in either output mode, the finally
\* block runs to its end without raising, and the response the body chose
\* is the response of the request.
C29_FinallyNeverRaises ==
    /\ (u_pc = "finally") => ~FinallyRaises(output_type, items_to_finally_zip)
    /\ (u_pc = "done") => (response \in BodyResponses)

(***************************************************************************)
(* The name upload_file gives to a sheet (app.py 489, 600, 622).           *)
(***************************************************************************)
\* output_file_extension = output_format.lower()
OutputFileExtension(output_format) ==
    IF output_format = "WEBP" THEN "webp" ELSE "png"

\* the encoding a file extension names
EncodingNamedBy(extension) ==
    IF extension = "webp" THEN "WEBP" ELSE "PNG"

\* C30: every sprite sheet written by create_sprite_sheet has a file
\* extension that names the encoding it was saved in, also when a WEBP
\* request falls back to PNG because of the dimension limit.
C30_ExtensionMatchesEncoding ==
    sheet_file.exists =>
        sheet_file.encoding =
            EncodingNamedBy(OutputFileExtension(output_sheet_format))

(***************************************************************************)
(* setup_scene (process_fbx.py 91-182) and the part of render_animation    *)
(* that applies the style to the imported meshes (644-765).                *)
(*                                                                         *)
(* The style is one of the choices of --render_style.  The material nodes  *)
(* of a mesh are named after the function that builds them.                *)
(***************************************************************************)
\* the default render resolution (lines 138-139)
DefaultResolution == 1024

\* Lines 101-121: the light added for the style
SceneLight(style) ==
    IF style \in {"bright", "cel", "clay", "pixel_cel", "cel_outline",
                  "cel_thicker_outline", "pixel_outline", "pixel_post_outline"}
    THEN "sun" ELSE "none"

\* Lines 110-117: the world background
SceneWorld(style) == IF style = "blueprint" THEN "blue" ELSE "default"

\* SceneResolution with a fault: the style is not looked at
SceneResolutionAnyStyle(style, pixel_resolution) ==
    IF pixel_resolution.kind = "num" /\ pixel_resolution.val # 0
    THEN <<pixel_resolution.val, pixel_resolution.val>>
    ELSE <<DefaultResolution, DefaultResolution>>

\* Lines 131-139: "render_style in [...] and pixel_resolution" is true for
\* a pixel style and a pixel_resolution that is neither None nor 0
SceneResolution(style, pixel_resolution) ==
    IF /\ style \in {"pixel_cel", "pixel_outline", "pixel_post_outline",
                     "pixel_post_thin_outline"}
       /\ pixel_resolution.kind = "num"
       /\ pixel_resolution.val # 0
    THEN <<pixel_resolution.val, pixel_resolution.val>>
    ELSE <<DefaultResolution, DefaultResolution>>

\* Lines 142-151
SceneFileFormat(output_format) ==
    IF output_format = "WEBP" THEN "WEBP" ELSE "PNG"

\* Lines 668-723: what is done to the material nodes, by style
MaterialNodes(style) ==
    CASE style \in {"clay", "wireframe"} -> "original"
      [] style \in {"cel", "cel_outline", "cel_thicker_outline"} -> "unlit"
      [] style = "unlit" -> "unlit"
      [] style = "original_unlit" -> "original"
      [] style \in {"pixel_cel", "pixel_outline", "pixel_post_outline",
                    "pixel_post_thin_outline"} -> "unlit"
      [] style = "blueprint" -> "unlit_white"
      [] style = "halftone" -> "unlit"
      [] style = "hatched" -> "toon"
      [] style = "glitch" -> "unlit"
      [] style = "ascii_art" -> "unlit_white"
      [] OTHER -> "original"

\* Lines 646-647 and 727-732: the outline modifier
OutlineModifier(style) ==
    CASE style = "cel_outline" -> "outline"
      [] style = "cel_thicker_outline" -> "outline_thick"
      [] style = "pixel_outline" -> "outline_thick"
      [] OTHER -> "none"

\* Lines 733-754: the material that replaces the slots of a mesh
MaterialOverride(style, has_materials) ==
    CASE style = "clay" /\ has_materials -> "ClayMaterial"
      [] style = "wireframe" /\ has_materials -> "WireframeMaterial"
      [] OTHER -> "none"

\* the values of --pixel_resolution (type=int, default None)
EnginePixelResolutions == {Absent, Num(0), Num(16), Num(128), Num(1024)}

StyleInit ==
    /\ frame_current = 0
    /\ NotStyleIdle
    /\ st_pc = "scene"
    /\ st_render_style \in EngineStyles
    /\ st_output_format \in {"PNG", "WEBP"}
    /\ st_pixel_resolution \in EnginePixelResolutions
    /\ st_has_materials \in BOOLEAN
    /\ st_scene = NoScene
    /\ st_object = NoObjectStyle

\* setup_scene(render_style, output_format, pixel_resolution)
SetupScene ==
    /\ st_pc = "scene"
    /\ st_scene' = [light |-> SceneLight(st_render_style),
                    world |-> SceneWorld(st_render_style),
                    resolution |-> SceneResolution(st_render_style,
                                                   st_pixel_resolution),
                    file_format |-> SceneFileFormat(st_output_format),
                    freestyle |-> (st_render_style = "blueprint")]
    /\ st_pc' = "style"
    /\ UNCHANGED <<st_render_style, st_output_format, st_pixel_resolution,
                   st_has_materials, st_object>>
    /\ UNCHANGED notStyleVars

\* "Apply Shaders / Modifiers based on Style"
ApplyStyle ==
    /\ st_pc = "style"
    /\ st_object' =
          [nodes |-> IF st_has_materials THEN MaterialNodes(st_render_style)
                     ELSE "original",
           modifier |-> OutlineModifier(st_render_style),
           override |-> MaterialOverride(st_render_style, st_has_materials)]
    /\ st_pc' = "done"
    /\ UNCHANGED <<st_render_style, st_output_format, st_pixel_resolution,
                   st_has_materials, st_scene>>
    /\ UNCHANGED notStyleVars

StyleNext ==
    \/ SetupScene
    \/ ApplyStyle

SpecStyle == StyleInit /\ [][StyleNext]_vars

C25_PostOutlineAsPixelCel ==
    (st_pc = "done" /\ st_render_style \in PostOutlineStyles) =>
        /\ st_scene =
              [light |-> SceneLight("pixel_cel"),
               world |-> SceneWorld("pixel_cel"),
               resolution |-> SceneResolution("pixel_cel", st_pixel_resolution),
               file_format |-> SceneFileFormat(st_output_format),
               freestyle |-> FALSE]
        /\ st_object.nodes =
              IF st_has_materials THEN MaterialNodes("pixel_cel") ELSE "original"
        /\ st_object.modifier = "none"
        /\ st_object.override = "none"

(***************************************************************************)
(* One engine invocation from setup_camera to the end of the render loop   *)
(* (process_fbx.py 620 and 773-793).                                       *)
(*                                                                         *)
(* Units are those of setup_camera above.  Angles are multiples of 45      *)
(* degrees; cosine and sine are in thousandths.  The origin of the object  *)
(* may move with the frame.  cam_world_center = matrix_world.translation   *)
(* is read when the camera location is computed (line 287): mathutils      *)
(* either copied the value when the name was assigned or reads the matrix  *)
(* again then, so the origin is the one at either frame.                   *)
(***************************************************************************)
PoseFrames == 1..MaxPoseFrames

CosMilli(a) ==
    CASE a % 360 = 0 -> 1000 [] a % 360 = 45 -> 707 [] a % 360 = 90 -> 0
      [] a % 360 = 135 -> -707 [] a % 360 = 180 -> -1000
      [] a % 360 = 225 -> -707 [] a % 360 = 270 -> 0 [] a % 360 = 315 -> 707

SinMilli(a) == CosMilli(a + 270)

\* mathutils.Matrix.Rotation(radians, 4, 'Z') @ v, the components of v
\* taken in thousands so that the products stay within 32 bits
RotateZMilli(a, v) ==
    <<CosMilli(a) * (v[1] \div 1000) - SinMilli(a) * (v[2] \div 1000),
      SinMilli(a) * (v[1] \div 1000) + CosMilli(a) * (v[2] \div 1000),
      v[3]>>

\* how the object origin moves over the frames
OriginTracks ==
    {[f \in PoseFrames |-> <<0, 0, 0>>],
     [f \in PoseFrames |-> <<300 * f, -200 * f, 100>>]}

\* the frames at which matrix_world.translation may be read in the frame 1
\* fallback: scene.frame_set(1) raised and the frame did not change; the
\* frame is still 1 (an exception after frame_set(1)); or frame 1 was set
\* and the original frame restored (line 233) before the value is used
OriginReadAt(f1, cur) ==
    CASE f1.kind = "frame_set_raises" -> {cur}
      [] f1.kind \in {"corners_raise", "restore_raises"} -> {1}
      [] OTHER -> {1, cur}

\* CamWorldCenter with a fault: the centre is the object origin whatever
\* the bounds are
CamWorldCenterOrigin(bounds, f1, origin) == ToMicro(origin)

\* "Determine Center and Dimensions": cam_world_center
CamWorldCenter(bounds, f1, origin) ==
    IF bounds.found THEN Center(bounds.min, bounds.max)
    ELSE IF f1.kind = "box" THEN Center(f1.box.min, f1.box.max)
    ELSE ToMicro(origin)

\* "Determine Center and Dimensions": cam_world_dims
CamWorldDims(bounds, f1) ==
    IF bounds.found THEN VecSub(bounds.max, bounds.min)
    ELSE IF f1.kind = "box" THEN VecSub(f1.box.max, f1.box.min)
    ELSE <<FallbackDim, FallbackDim, FallbackDim>>

\* setup_camera as a whole, with the origin as it is read
SetupCamera(bounds, f1, origin, angle, res) ==
    LET center == CamWorldCenter(bounds, f1, origin)
        dims == CamWorldDims(bounds, f1)
        scale == OrthoScale(dims, res)
    IN  [location |-> VecAdd(center,
                         RotateZMilli(angle, Vec(0, -CameraDistance(scale), 0))),
         target |-> center,
         ortho_scale |-> scale,
         center |-> center,
         dims |-> dims]

PoseInit ==
    /\ NotPoseIdle
    /\ p_pc = "camera"
    /\ frame_current \in PoseFrames
    /\ p_bounds \in CameraVolumes \cup {NoBounds}
    /\ p_frame1 \in IF p_bounds.found THEN {[kind |-> "box", box |-> VolZero]}
                    ELSE Frame1Outcomes
    /\ p_origin \in OriginTracks
    /\ p_angle \in {0, 45, 90, 135, 180, 225, 270, 315}
    /\ p_resolution \in {<<1024, 1024>>, <<512, 1024>>, <<1024, 512>>}
    /\ p_frames \in {<<1>>, [i \in PoseFrames |-> i]}
    /\ p_setup_frame = 0
    /\ p_camera = NoCamera
    /\ p_log = <<>>

\* setup_camera(imported_object, angle_degrees, overall_min, overall_max)
PoseSetupCamera ==
    /\ p_pc = "camera"
    /\ p_setup_frame' = frame_current
    /\ \E read_at \in OriginReadAt(p_frame1, frame_current) :
          p_camera' = SetupCamera(p_bounds, p_frame1, p_origin[read_at],
                                  p_angle, p_resolution)
    /\ frame_current' =
          IF ~p_bounds.found /\ p_frame1.kind \in {"corners_raise", "restore_raises"}
          THEN 1 ELSE frame_current
    /\ p_pc' = "render"
    /\ UNCHANGED <<p_bounds, p_frame1, p_origin, p_angle, p_resolution,
                   p_frames, p_log>>
    /\ UNCHANGED notPoseVars

\* One iteration of the render loop: scene.frame_set(frame), the file path,
\* bpy.ops.render.render through the scene camera.
PoseRenderFrame ==
    /\ p_pc = "render"
    /\ LET frame == p_frames[Len(p_log) + 1]
       IN  /\ frame_current' = frame
           /\ p_log' = Append(p_log, [frame |-> frame, camera |-> p_camera])
    /\ p_pc' = IF Len(p_log) + 1 = Len(p_frames) THEN "done" ELSE "render"
    /\ UNCHANGED <<p_bounds, p_frame1, p_origin, p_angle, p_resolution,
                   p_frames, p_setup_frame, p_camera>>
    /\ UNCHANGED notPoseVars

PoseNext ==
    \/ PoseSetupCamera
    \/ PoseRenderFrame

SpecPose == PoseInit /\ [][PoseNext]_vars

\* every frame rendered so far was rendered with the camera setup_camera
\* made
SamePoseForEveryFrame ==
    \A i \in DOMAIN p_log : p_log[i].camera = p_camera

\* the cameras setup_camera can make when called at frame f
PosesAtFrame(f) ==
    {SetupCamera(p_bounds, p_frame1, p_origin[r], p_angle, p_resolution) :
        r \in OriginReadAt(p_frame1, f)}

\* the centre of the pose is that of a bounding box
CentreFromBox == p_bounds.found \/ p_frame1.kind = "box"

OutsideFramedBox(cam) ==
    \E i \in 1..3 :
        LET d == cam.location[i] - cam.center[i]
        IN  2 * (IF d < 0 THEN -d ELSE d) > cam.dims[i] * MicroPerCoord

\* C24: for every bounding volume, aspect ratio and angle the camera
\* distance max(1.0, 2.5 * orthographic scale) puts the camera strictly
\* outside the bounding box used for framing.
C24_CameraOutsideVolume ==
    (p_pc \in {"render", "done"}) => OutsideFramedBox(p_camera)

\* a camera on the diagonal of a volume that is no cube and off the origin
C24_Witness ==
    /\ p_pc = "done"
    /\ p_bounds = VolOff
    /\ p_angle = 45
    /\ p_resolution = <<512, 1024>>
    /\ OutsideFramedBox(p_camera)
    /\ p_camera.location[1] # p_camera.center[1]
    /\ p_camera.location[2] # p_camera.center[2]

(***************************************************************************)
(* The subprocess.run calls of upload_file (app.py 557-581) and of         *)
(* preview_render (app.py 329-331).                                        *)
(*                                                                         *)
(* The engine process of a call exits with status 0, exits with another    *)
(* status, or never terminates.  Time passes in steps of TickSeconds while *)
(* a call waits; the wait of a call without a timeout is followed up to    *)
(* MaxWait seconds, after which nothing more happens.                      *)
(***************************************************************************)
\* timeout=300 of the call in upload_file
UploadTimeout == 300

\* the timeout argument of subprocess.run, by route
RunTimeout(rt) == IF rt = "upload" THEN Num(UploadTimeout) ELSE Absent

\* a request makes one call per angle, or one call for a preview
RunInit ==
    /\ frame_current = 0
    /\ NotRunIdle
    /\ t_pc = "call"
    /\ t_route \in {"upload", "preview"}
    /\ \E n \in 1..(IF t_route = "upload" THEN MaxAngles ELSE 1) :
          t_engine \in [1..n -> {"exits", "fails", "hangs"}]
    /\ t_i = 1
    /\ t_elapsed = 0
    /\ t_runs = <<>>
    /\ t_errors = <<>>
    /\ t_response = "none"

\* where the handler continues after the call t_i has ended
AfterRun == IF t_i < Len(t_engine) THEN "call" ELSE "respond"

\* subprocess.run(command, check=True, capture_output=True, text=True[,
\* timeout=300]) is entered
RunCall ==
    /\ t_pc = "call"
    /\ t_runs' = Append(t_runs, RunTimeout(t_route))
    /\ t_elapsed' = 0
    /\ t_pc' = "running"
    /\ UNCHANGED <<t_route, t_engine, t_i, t_errors, t_response>>
    /\ UNCHANGED notRunVars

\* the engine process ends: the call returns, or raises CalledProcessError,
\* which upload_file records (lines 563-567) and which ends a preview with
\* status 500 (lines 392-400)
RunEnds ==
    /\ t_pc = "running"
    /\ t_engine[t_i] \in {"exits", "fails"}
    /\ t_errors' = IF t_engine[t_i] = "fails"
                   THEN Append(t_errors, Error("failed", t_i)) ELSE t_errors
    /\ t_i' = IF t_i < Len(t_engine) THEN t_i + 1 ELSE t_i
    /\ t_pc' = AfterRun
    /\ UNCHANGED <<t_route, t_engine, t_elapsed, t_runs, t_response>>
    /\ UNCHANGED notRunVars

\* the engine process is still running and the call goes on waiting
RunWaits ==
    /\ t_pc = "running"
    /\ t_engine[t_i] = "hangs"
    /\ t_elapsed < (IF t_runs[t_i].kind = "num" THEN t_runs[t_i].val ELSE MaxWait)
    /\ t_elapsed' = t_elapsed + TickSeconds
    /\ UNCHANGED <<t_pc, t_route, t_engine, t_i, t_runs, t_errors, t_response>>
    /\ UNCHANGED notRunVars

\* the timeout of the call expires: subprocess.TimeoutExpired, recorded by
\* upload_file (lines 573-579), and the loop goes on
RunTimesOut ==
    /\ t_pc = "running"
    /\ t_engine[t_i] = "hangs"
    /\ t_runs[t_i].kind = "num"
    /\ t_elapsed >= t_runs[t_i].val
    /\ t_errors' = Append(t_errors, Error("timeout", t_i))
    /\ t_i' = IF t_i < Len(t_engine) THEN t_i + 1 ELSE t_i
    /\ t_pc' = AfterRun
    /\ UNCHANGED <<t_route, t_engine, t_elapsed, t_runs, t_response>>
    /\ UNCHANGED notRunVars

\* the rest of the handler, up to its response
RunRespond ==
    /\ t_pc = "respond"
    /\ t_response' = "returned"
    /\ t_pc' = "done"
    /\ UNCHANGED <<t_route, t_engine, t_i, t_elapsed, t_runs, t_errors>>
    /\ UNCHANGED notRunVars

RunNext ==
    \/ RunCall
    \/ RunEnds
    \/ RunWaits
    \/ RunTimesOut
    \/ RunRespond

\* the handler goes on whenever it can, and time passes
SpecRun == RunInit /\ [][RunNext]_vars /\ WF_vars(RunNext)

\* C23: every engine subprocess started by the web layer, for upload
\* angles and for previews alike, is run with a timeout, so a request
\* whose engine process never terminates still eventually returns a
\* response; a timeout on one angle is recorded and does not end the
\* request.
C23_BoundedInvocations ==
    /\ [](\A i \in DOMAIN t_runs : t_runs[i].kind = "num")
    /\ <>(t_response # "none")
    /\ [](t_pc = "done" =>
             \A i \in DOMAIN t_engine :
                t_engine[i] = "hangs" =>
                   \E k \in DOMAIN t_errors : t_errors[k] = Error("timeout", i))

(***************************************************************************)
(* The names upload_file gives to the output of each angle (app.py         *)
(* 524-537) and the order in which create_sprite_sheet reads the frames    *)
(* of the flat working directory (app.py 120).                             *)
(*                                                                         *)
(* Angles are in thousandths of a degree.  A name is the sequence of the   *)
(* character codes of its part after "<unique_id>_angle_"; a directory is  *)
(* the part after "angle_", empty for the working directory itself.  Each  *)
(* engine run writes one frame, with index 0000.                           *)
(***************************************************************************)
\* ord('0') and ord('_')
CharZero == 48

CharUnderscore == 95

\* the characters of a sequence of decimal digits
Chars(digits) == [i \in DOMAIN digits |-> CharZero + digits[i]]

\* f"{angle:.1f}" as a number of tenths: the nearest tenth, a tie to the
\* even one (the angles of the model are exact as doubles where they tie)
FormatTenths(angle) == PyRound(angle, 100)

\* angle_str_safe = f"{angle:.1f}".replace('.', '_')
AngleStrSafe(angle) ==
    LET tenths == FormatTenths(angle)
    IN  Chars(Digits(tenths \div 10)) \o <<CharUnderscore>>
           \o Chars(Digits(tenths % 10))

\* angle_output_dir, by layout
AngleOutputDir(mode, angle) ==
    IF mode # "off" THEN <<>> ELSE AngleStrSafe(angle)

\* the name of the frame the engine writes for the angle:
\* angle_output_name, "_", the index in four digits
FrameName(angle, index) ==
    AngleStrSafe(angle) \o <<CharUnderscore>> \o Chars(ZeroPad(Digits(index), 4))

\* s < t for two Python strings
StrLess(s, t) ==
    \E k \in 1..(Min2(Len(s), Len(t)) + 1) :
        /\ \A j \in 1..(k - 1) : s[j] = t[j]
        /\ \/ k > Len(s) /\ k <= Len(t)
           \/ k <= Len(s) /\ k <= Len(t) /\ s[k] < t[k]

\* sorted(glob.glob(frame_pattern)) of files in one directory
RECURSIVE SortedByName(_)
SortedByName(files) ==
    IF files = {} THEN <<>>
    ELSE LET first == CHOOSE f \in files :
                         \A g \in files \ {f} : StrLess(f.name, g.name)
         IN  <<first>> \o SortedByName(files \ {first})

\* angle_step = 360.0 / num_auto_angles;
\* angles_to_process = [i * angle_step for i in range(num_auto_angles)]
AutoAngleList(n) == [i \in 1..n |-> ((i - 1) * 360000) \div n]

\* the angles a form of the manual mode can select
ManualAngles == {0, 45000, 45040, 90000}

NamesInit ==
    /\ frame_current = 0
    /\ NotNamesIdle
    /\ n_pc = "loop"
    /\ n_mode \in {"off", "16", "32", "64"}
    /\ n_angles \in
          CASE n_mode = "16" -> {AutoAngleList(16)}
            [] n_mode = "32" -> {AutoAngleList(32)}
            [] n_mode = "64" -> {AutoAngleList(64)}
            [] OTHER -> {SortedList(S) : S \in SUBSET ManualAngles \ {{}}}
    /\ n_i = 1
    /\ n_files = {}
    /\ n_order = <<>>

\* One iteration of the per-angle loop: the directory and the base name of
\* the angle, and the engine run, which writes its frame there, over a file
\* of the same name if there is one.
NameAngle ==
    /\ n_pc = "loop"
    /\ LET angle == n_angles[n_i]
           written == [dir |-> AngleOutputDir(n_mode, angle),
                       name |-> FrameName(angle, 0),
                       angle |-> angle]
       IN  n_files' =
              {f \in n_files : f.dir # written.dir \/ f.name # written.name}
                 \cup {written}
    /\ n_i' = n_i + 1
    /\ n_pc' = IF n_i = Len(n_angles) THEN "sheet" ELSE "loop"
    /\ UNCHANGED <<n_mode, n_angles, n_order>>
    /\ UNCHANGED notNamesVars

\* create_sprite_sheet(base_temp_dir, ...) in auto-angles mode: the tiles
\* are the frames in sorted file name order
NameSheetOrder ==
    /\ n_pc = "sheet"
    /\ n_order' =
          IF n_mode # "off"
          THEN LET sorted == SortedByName(n_files)
               IN  [i \in DOMAIN sorted |-> sorted[i].angle]
          ELSE <<>>
    /\ n_pc' = "done"
    /\ UNCHANGED <<n_mode, n_angles, n_i, n_files>>
    /\ UNCHANGED notNamesVars

NamesNext ==
    \/ NameAngle
    \/ NameSheetOrder

SpecNames == NamesInit /\ [][NamesNext]_vars

\* C27: within one upload request any two distinct angles of the processed
\* list are given distinct pairs of output directory and base name, so the
\* frames of one angle are never overwritten by or merged with those of
\* another angle.
C27_DistinctAngleOutputs ==
    \A i, j \in 1..(n_i - 1) :
        n_angles[i] # n_angles[j] =>
           /\ \/ AngleOutputDir(n_mode, n_angles[i]) #
                    AngleOutputDir(n_mode, n_angles[j])
              \/ AngleStrSafe(n_angles[i]) # AngleStrSafe(n_angles[j])
           /\ (n_pc \in {"loop", "sheet"}) =>
                 \E f, g \in n_files :
                    f.angle = n_angles[i] /\ g.angle = n_angles[j]

\* C28: in auto-angles mode with sprite-sheet output the tiles of the
\* single sheet are in increasing angle order (0, 360/N, 2*360/N, ...):
\* the sorted file name order is the numeric order of the angles, for N in
\* {16, 32, 64}.
C28_TilesInAngleOrder ==
    (n_pc = "done" /\ n_mode # "off") => n_order = n_angles

====
